---- MODULE Spec2Model ----
(***************************************************************************)
(* A model of CSExporter: the eight export scripts (token, paged list,     *)
(* detail hydration, transform, workbook write) and the menu's batch       *)
(* runner.                                                                 *)
(*                                                                         *)
(* Three specifications share the variables:                               *)
(*   SpecFetch  one call of a fetch function against a server              *)
(*   SpecRun    one run of an export script's main()                       *)
(*   SpecBatch  run_script / "Export All" of exporter.py                   *)
(*                                                                         *)
(* Scaling.  The page sizes of the source are the literals 100             *)
(* (fetch_host_groups, fetch_ids) and 2000 (fetch_iocs).  The loops use    *)
(* the page size only in "offset += limit" and "len(resources) < limit",   *)
(* so the model draws it from 1..MaxLimit.                                 *)
(***************************************************************************)
EXTENDS Integers, Sequences, FiniteSets, TLC

\* ------------------------------------------------------------------ bounds
MaxLimit == 2
MaxTotal == 4
MaxReq == 5
MaxIds == 3
MaxItems == 2

VARIABLES
    fn,        \* the fetch function being executed ("none": no call active)
    limit,     \* its local "limit"
    offset,    \* its local "offset"
    acc,       \* its local accumulator: all_resources / all_ids / all_details
    fstate,    \* "idle" | "loop" | "returned" | "raised"
    ids,       \* fetch_details: its argument "ids"
    idx,       \* fetch_details: how many of ids the for loop has taken
    reqs,      \* the requests issued so far, in order
    resps,     \* the responses received so far, in order
    printed,   \* fetch_details: the per-id error lines printed so far
    err,       \* the exception raised, NoErr when none
    srv,       \* the upstream server the requests go to
    nreq,      \* the ledger of the requests issued and of their answers
    trace,     \* whether reqs and resps are recorded (they are observers only)
    script,    \* the export script whose main() runs ("none": no run)
    pc,        \* main()'s position
    env,       \* which credential entries the .env file holds
    token,     \* the bearer token main() holds
    auth,      \* the answer the token endpoint gave (NoAuth: none yet)
    kind,      \* exportexclusions.main: the exclusion kind being fetched (1..4)
    host_counts, \* exportpp: the policies fetch_policies counted hosts for
    per_type,  \* the bundle handed to save_to_excel: <<[key, rows], ...>>
    book,      \* the ExcelWriter's workbook: the sheets written so far
    written,   \* save_to_excel: how many entries of the bundle were written
    client_name, \* where the client name came from: "none" | "env" | "input"
    file,      \* the destination file on disk
    \* ---- exporter.py, the menu that runs the scripts
    escolha,   \* the option chosen in the export menu, 1..9
    queue,     \* the scripts run_script is still to be called with
    present,   \* the scripts whose file is in the current directory
    started,   \* the scripts started as a child process, in order
    report,    \* the last result line run_script printed
    bpc,       \* the position of exporter.py
    \* ---- exportpp.transform_policies
    result,    \* the sheets the transform returned
    previous,  \* the sheets of an earlier run on the same upstream data
    \* ---- exporter.py, the client store
    envfile,      \* the .env file: its CLIENT_CONFIGS mapping and its other keys
    menu_configs, \* menu_principal's client_configs
    sub_configs,  \* submenu_clientes' client_configs
    mpc,          \* the menu the user is in: "main" | "exportar" | "clientes"
    expected,     \* the clients the operations of this clients session amount to
    lastop        \* the last operation: what, on which client, and whether it was done

batchVars == <<escolha, queue, present, started, report, bpc>>

fetchVars == <<fn, limit, offset, acc, fstate, ids, idx, reqs, resps, printed, err, srv,
               nreq, trace>>

runVars == <<script, pc, env, token, auth, kind, host_counts, per_type, book, written,
             client_name, file>>

ppVars == <<result, previous>>

storeVars == <<envfile, menu_configs, sub_configs, mpc, expected, lastop>>

\* No earlier run.
NoRun == [ran |-> FALSE, sheets |-> <<>>]

NoOp == [op |-> "none", name |-> "none", ok |-> FALSE]

\* The empty dict.
EmptyMap == [x \in {} |-> x]

\* The menu is not part of the run.
StoreIdle ==
    /\ envfile = [configs |-> EmptyMap, keys |-> EmptyMap]
    /\ menu_configs = EmptyMap
    /\ sub_configs = EmptyMap
    /\ mpc = "none"
    /\ expected = EmptyMap
    /\ lastop = NoOp

vars == <<fetchVars, runVars, batchVars, ppVars, storeVars>>

\* ----------------------------------------------------------------- helpers
Min(a, b) == IF a < b THEN a ELSE b

Max(a, b) == IF a > b THEN a ELSE b

CeilDiv(a, b) == (a + b - 1) \div b

Range(s) == {s[i] : i \in DOMAIN s}

\* ------------------------------------------------------------------ server
\* The page of n items that starts at offset o; an item is named by its
\* position in the upstream collection.
Page(o, n) == [i \in 1..n |-> o + i]

NoErr == [msg |-> "none", fields |-> {}]

\* A response: HTTP status, whether the body parses as JSON, and the two
\* fields of the parsed body the loops read.
Resp(s, j, rs, t) == [status |-> s, json |-> j, resources |-> rs, total |-> t]

\* A server that holds T items, reports total = T and serves [offset, offset+limit).
HonestResp(o, lim, T) == Resp(200, TRUE, Page(o, Max(0, Min(lim, T - o))), T)

\* Non-success statuses and an unparseable body.
FailResps == {Resp(s, TRUE, <<>>, 0) : s \in {401, 500}} \cup {Resp(200, FALSE, <<>>, 0)}

\* Every answer a list endpoint can give to a request at offset o: a page of
\* any length (short, empty, full, overlong) with any reported total in
\* totals.  fetch_ids and fetch_iocs never read meta.pagination.total, so
\* their endpoints are given totals = {0}.
AnyListResps(o, lim, totals) ==
    {Resp(200, TRUE, Page(o, n), t) : n \in 0..(lim + 1), t \in totals} \cup FailResps

\* A tenant that holds at most MaxItems items per collection: a page of any
\* length the collection and the limit allow, or a failure.
TenantListResps(o, lim, totals) ==
    {Resp(200, TRUE, Page(o, n), t) :
        n \in 0..Min(lim, Max(0, MaxItems - o)), t \in totals} \cup FailResps

ListResps(o, lim, totals) ==
    CASE srv.kind = "honest" -> {HonestResp(o, lim, srv.total)}
      [] srv.kind = "tenant" -> TenantListResps(o, lim, totals \cap 0..MaxItems)
      [] OTHER -> AnyListResps(o, lim, totals)

\* Every answer the details endpoint can give for one identifier.
DetailResps(id) == {Resp(200, TRUE, <<id>>, 0), Resp(200, TRUE, <<>>, 0)} \cup FailResps

Req(ep, arg) == [ep |-> ep, arg |-> arg]

\* reqs and resps observe the traffic; a run of main() keeps only the counts.
Log(l, x) == IF trace THEN Append(l, x) ELSE l

\* The Authorization header of a list or detail request.
BearerMut(t) == "none"

Bearer(t) == t

\* The ledger of the requests: how many of each kind, which tokens the list
\* and detail requests carried, whether one of them was answered with 401,
\* and whether a list request was answered with a failure.
Count(what, r) ==
    [nreq EXCEPT ![what] = @ + 1,
                 !.bearer = IF what = "token" THEN @ ELSE @ \cup {Bearer(token)},
                 !.denied = @ \/ (what /= "token" /\ r.status = 401),
                 !.listfail = @ \/ (what = "list" /\ (r.status /= 200 \/ ~r.json))]

NoReq == [token |-> 0, list |-> 0, detail |-> 0, bearer |-> {}, denied |-> FALSE,
          listfail |-> FALSE]

\* ---------------------------------------------------------- fetch functions
\* exporthostgroups.py: the loop's exit test "offset + len(resources) >= total".
TotalReachedMut(o, n, t) == o + n > t

TotalReached(o, n, t) == o + n >= t

\* exportexclusions.py / exportiocs.py: "not resources or len(resources) < limit".
ShortPageMut(n, lim) == n = 0

ShortPage(n, lim) == n = 0 \/ n < lim

\* One iteration of fetch_host_groups on response r: the new locals.
host_groups_body(o, lim, a, r) ==
    IF r.status /= 200
    THEN [st |-> "raised", offset |-> o, acc |-> <<>>,
          err |-> [msg |-> "Falha ao buscar host groups", fields |-> {"status", "body"}]]
    ELSE IF ~r.json
    THEN [st |-> "raised", offset |-> o, acc |-> <<>>,
          err |-> [msg |-> "Resposta da API invalida", fields |-> {"body"}]]
    ELSE IF TotalReached(o, Len(r.resources), r.total)
    THEN [st |-> "returned", offset |-> o, acc |-> a \o r.resources, err |-> NoErr]
    ELSE [st |-> "loop", offset |-> o + lim, acc |-> a \o r.resources, err |-> NoErr]

\* One iteration of fetch_ids / fetch_iocs on response r: the new locals.
short_page_body(o, lim, a, r, what) ==
    IF r.status /= 200
    THEN [st |-> "raised", offset |-> o, acc |-> <<>>,
          err |-> [msg |-> what, fields |-> {"status", "body"}]]
    ELSE IF ~r.json
    THEN [st |-> "raised", offset |-> o, acc |-> <<>>,
          err |-> [msg |-> "Resposta da API invalida", fields |-> {"body"}]]
    ELSE IF ShortPage(Len(r.resources), lim)
    THEN [st |-> "returned", offset |-> o, acc |-> a \o r.resources, err |-> NoErr]
    ELSE [st |-> "loop", offset |-> o + lim, acc |-> a \o r.resources, err |-> NoErr]

\* One iteration of fetch_details on response r: what is appended to
\* all_details and how many error lines are printed.
DetailsBodyMut(a, r) ==
    IF r.status /= 200 \/ ~r.json
    THEN [st |-> "raised", acc |-> <<>>, lines |-> 0]
    ELSE [st |-> "loop", acc |-> a \o r.resources, lines |-> 0]

details_body(a, r) ==
    IF r.status /= 200 \/ ~r.json
    THEN [st |-> "loop", acc |-> a, lines |-> 1]
    ELSE [st |-> "loop", acc |-> a \o r.resources, lines |-> 0]

\* requests.get + the loop body of fetch_host_groups.
fetch_host_groups_iter ==
    /\ fn = "fetch_host_groups" /\ fstate = "loop"
    /\ \E r \in ListResps(offset, limit, 0..MaxTotal) :
         LET out == host_groups_body(offset, limit, acc, r) IN
         /\ reqs' = Log(reqs, Req("host-groups", offset))
         /\ resps' = Log(resps, r)
         /\ nreq' = Count("list", r)
         /\ offset' = out.offset
         /\ acc' = out.acc
         /\ fstate' = out.st
         /\ err' = out.err
    /\ UNCHANGED <<fn, limit, ids, idx, printed, srv, trace, runVars>>
    /\ UNCHANGED batchVars
    /\ UNCHANGED ppVars
    /\ UNCHANGED storeVars

\* requests.get + the loop body of fetch_ids.
fetch_ids_iter ==
    /\ fn = "fetch_ids" /\ fstate = "loop"
    /\ offset \div limit < MaxReq
    /\ \E r \in ListResps(offset, limit, {0}) :
         LET out == short_page_body(offset, limit, acc, r, "Falha ao buscar IDs") IN
         /\ reqs' = Log(reqs, Req("ids", offset))
         /\ resps' = Log(resps, r)
         /\ nreq' = Count("list", r)
         /\ offset' = out.offset
         /\ acc' = out.acc
         /\ fstate' = out.st
         /\ err' = out.err
    /\ UNCHANGED <<fn, limit, ids, idx, printed, srv, trace, runVars>>
    /\ UNCHANGED batchVars
    /\ UNCHANGED ppVars
    /\ UNCHANGED storeVars

\* requests.get + the loop body of fetch_iocs.
fetch_iocs_iter ==
    /\ fn = "fetch_iocs" /\ fstate = "loop"
    /\ offset \div limit < MaxReq
    /\ \E r \in ListResps(offset, limit, {0}) :
         LET out == short_page_body(offset, limit, acc, r, "Falha ao buscar IOCs") IN
         /\ reqs' = Log(reqs, Req("iocs", offset))
         /\ resps' = Log(resps, r)
         /\ nreq' = Count("list", r)
         /\ offset' = out.offset
         /\ acc' = out.acc
         /\ fstate' = out.st
         /\ err' = out.err
    /\ UNCHANGED <<fn, limit, ids, idx, printed, srv, trace, runVars>>
    /\ UNCHANGED batchVars
    /\ UNCHANGED ppVars
    /\ UNCHANGED storeVars

\* One pass of "for id_val in ids" of fetch_details: the request and its handling.
fetch_details_iter ==
    /\ fn = "fetch_details" /\ fstate = "loop" /\ idx < Len(ids)
    /\ \E r \in DetailResps(ids[idx + 1]) :
         LET out == details_body(acc, r) IN
         /\ reqs' = Log(reqs, Req("details", ids[idx + 1]))
         /\ resps' = Log(resps, r)
         /\ nreq' = Count("detail", r)
         /\ acc' = out.acc
         /\ printed' = printed + out.lines
         /\ fstate' = out.st
    /\ idx' = idx + 1
    /\ UNCHANGED <<fn, limit, offset, ids, err, srv, trace, runVars>>
    /\ UNCHANGED batchVars
    /\ UNCHANGED ppVars
    /\ UNCHANGED storeVars

\* "return all_details" once the for loop is exhausted.
fetch_details_return ==
    /\ fn = "fetch_details" /\ fstate = "loop" /\ idx = Len(ids)
    /\ fstate' = "returned"
    /\ UNCHANGED <<fn, limit, offset, acc, ids, idx, reqs, resps, printed, err, srv,
                   nreq, trace, runVars>>
    /\ UNCHANGED batchVars
    /\ UNCHANGED ppVars
    /\ UNCHANGED storeVars

\* No answer of the token endpoint yet.
NoAuth == [status |-> 0, body |-> "none"]

\* No run of main(): the values of the run's variables in SpecFetch.
NoFile == [state |-> "absent", sheets |-> <<>>]

RunIdle ==
    /\ script = "none"
    /\ pc = "none"
    /\ env = [client_id |-> TRUE, client_secret |-> TRUE, client_name |-> TRUE]
    /\ token = "none"
    /\ auth = NoAuth
    /\ kind = 0
    /\ host_counts = {}
    /\ per_type = <<>>
    /\ book = <<>>
    /\ written = 0
    /\ client_name = "none"
    /\ file = NoFile

\* No menu of exporter.py: the values of its variables in SpecFetch and SpecRun.
NoReport == [script |-> "none", result |-> "none"]

BatchIdle ==
    /\ escolha = 0
    /\ queue = <<>>
    /\ present = {}
    /\ started = <<>>
    /\ report = NoReport
    /\ bpc = "none"

\* ------------------------------------------------------------- SpecFetch
\* One call of one fetch function: the page size, the server and (for
\* fetch_details) the identifier list are the inputs.
Servers ==
    {[kind |-> "honest", total |-> T, disc |-> <<>>] : T \in 0..MaxTotal}
        \cup {[kind |-> "any", total |-> 0, disc |-> <<>>]}

InitFetch ==
    /\ fn \in {"fetch_host_groups", "fetch_ids", "fetch_iocs", "fetch_details"}
    /\ limit \in 1..MaxLimit
    /\ srv \in Servers
    /\ ids \in {Page(0, n) : n \in 0..MaxIds}
    /\ fn /= "fetch_details" => ids = <<>>
    /\ fn = "fetch_details" => limit = 1 /\ srv.kind = "any"
    /\ offset = 0
    /\ idx = 0
    /\ acc = <<>>
    /\ fstate = "loop"
    /\ reqs = <<>>
    /\ resps = <<>>
    /\ printed = 0
    /\ err = NoErr
    /\ nreq = NoReq
    /\ trace = TRUE
    /\ RunIdle
    /\ BatchIdle
    /\ result = <<>>
    /\ previous = NoRun
    /\ StoreIdle

NextFetch ==
    \/ fetch_host_groups_iter
    \/ fetch_ids_iter
    \/ fetch_iocs_iter
    \/ fetch_details_iter
    \/ fetch_details_return

SpecFetch == InitFetch /\ [][NextFetch]_vars

\* ===================================================================
\* Claims on the fetch functions (SpecFetch)
\* ===================================================================
OkPage(r) == r.status = 200 /\ r.json

RECURSIVE ConcatPages(_)
\* The resources of the responses rs, concatenated in the order received.
ConcatPages(rs) ==
    IF rs = <<>> THEN <<>>
    ELSE ConcatPages(SubSeq(rs, 1, Len(rs) - 1)) \o rs[Len(rs)].resources

\* The requests so far carry the offsets 0, limit, 2*limit, ...
OffsetsInOrder == \A i \in DOMAIN reqs : reqs[i].arg = (i - 1) * limit

HonestHostGroups == fn = "fetch_host_groups" /\ srv.kind = "honest"

\* C1 as stated: against a server that holds T items, reports total = T and
\* serves [offset, offset+P), fetch_host_groups returns exactly the T items,
\* the concatenation of the pages in request order, and issues exactly
\* ceil(T/P) page requests.
C1_TotalCountExactlyCeil ==
    HonestHostGroups =>
        /\ fstate /= "raised"
        /\ OffsetsInOrder
        /\ Len(reqs) <= CeilDiv(srv.total, limit)
        /\ fstate = "returned" =>
             /\ acc = Page(0, srv.total)
             /\ acc = ConcatPages(resps)
             /\ Len(reqs) = CeilDiv(srv.total, limit)

\* C1 amended: the same, with max(1, ceil(T/P)) page requests: the loop asks
\* for one page before it can read the total, so T = 0 costs one request.
C1_TotalCountPagination ==
    HonestHostGroups =>
        /\ fstate /= "raised"
        /\ OffsetsInOrder
        /\ Len(reqs) <= Max(1, CeilDiv(srv.total, limit))
        /\ fstate = "returned" =>
             /\ acc = Page(0, srv.total)
             /\ acc = ConcatPages(resps)
             /\ Len(reqs) = Max(1, CeilDiv(srv.total, limit))

\* C1 witness: a fetch of several pages whose last page is partial has returned.
C1_Witness ==
    /\ HonestHostGroups /\ fstate = "returned"
    /\ Len(reqs) >= 2
    /\ srv.total % limit /= 0

\* --------------------------------------------------------- SpecFetchLive
\* A fetch function that is in its loop goes on: requests.get returns and the
\* loop body runs.  The short-page loops are followed for MaxReq requests.
SpecFetchLive ==
    /\ InitFetch
    /\ [][NextFetch]_vars
    /\ WF_vars(fetch_host_groups_iter)

Terminated == fstate \in {"returned", "raised"}

\* The largest total the responses so far reported.
TotalSeen ==
    IF resps = <<>> THEN 0
    ELSE LET i == CHOOSE j \in DOMAIN resps : \A k \in DOMAIN resps : resps[k].total <= resps[j].total
         IN Max(0, resps[i].total)

\* The total-count loop has made at most ceil(T/P)+1 requests, T being the
\* largest total it was told.
RequestsWithinTotal ==
    fn = "fetch_host_groups" => Len(reqs) <= CeilDiv(TotalSeen, limit) + 1

ShortLoop == fn \in {"fetch_ids", "fetch_iocs"}

C2_ShortPageStops ==
    fn \in {"fetch_ids", "fetch_iocs"} =>
        /\ OffsetsInOrder
        /\ Len(reqs) = Len(resps)
        /\ \A i \in 1..(Len(resps) - 1) :
             OkPage(resps[i]) /\ Len(resps[i].resources) >= limit
        /\ (resps /= <<>> /\ OkPage(resps[Len(resps)])
              /\ Len(resps[Len(resps)].resources) < limit) =>
             /\ fstate = "returned"
             /\ acc = ConcatPages(resps)

\* C2 witness: the loop has returned after a full page followed by a short,
\* non-empty page, against a server that could have served more.
C2_Witness ==
    /\ fn \in {"fetch_ids", "fetch_iocs"} /\ srv.kind = "any"
    /\ fstate = "returned"
    /\ Len(resps) >= 2
    /\ Len(resps[Len(resps)].resources) \in 1..(limit - 1)
    /\ Len(acc) > limit

Failed(r) == r.status /= 200 \/ ~r.json

FailedAt == {i \in DOMAIN resps : Failed(resps[i])}

\* The case of C3: exactly one identifier's request failed and every other
\* request returned one resource.
OneFailure ==
    /\ Cardinality(FailedAt) = 1
    /\ \A i \in DOMAIN resps \ FailedAt : Len(resps[i].resources) = 1

\* C3: fetch_details never raises on a failed request; with N identifiers of
\* which exactly one fails, it issues N requests in identifier order, returns
\* the N-1 resources of the others in that order, and prints one error line.
C3_HydrateOneFailure ==
    fn = "fetch_details" =>
        /\ fstate /= "raised"
        /\ (fstate = "returned" /\ OneFailure) =>
             /\ reqs = [i \in 1..Len(ids) |-> Req("details", ids[i])]
             /\ acc = SelectSeq(ids, LAMBDA id : \A i \in FailedAt : ids[i] /= id)
             /\ Len(acc) = Len(ids) - 1
             /\ printed = 1

\* C3 witness: three identifiers, the middle one failed, the call returned.
C3_Witness ==
    /\ fn = "fetch_details" /\ fstate = "returned"
    /\ Len(ids) = 3 /\ OneFailure /\ FailedAt = {2}
    /\ acc = <<ids[1], ids[3]>>

\* ===================================================================
\* One run of an export script: main()
\* ===================================================================
\* exporter.py "options": the eight scripts in menu order.
Scripts ==
    <<"exportpp.py", "exportusb.py", "exportrp.py", "exportsup.py",
      "exportexclusions.py", "exporthostgroups.py", "exportioarules.py", "exportiocs.py">>

\* exportusb.py, exportrp.py, exportsup.py: one list request, no hydration.
PolicyScripts == {"exportusb.py", "exportrp.py", "exportsup.py"}

\* exportexclusions.main: the four kinds, in the order main() fetches them.
ExclusionKinds ==
    <<"Certificate Based Exclusion", "ML Exclusion", "IOA Exclusion",
      "Sensor Visibility Exclusion">>

\* What the model keeps of a raw resource: its discriminator d (platform_name
\* or type) and the number n of settings / rules it carries.
Descr(sc) ==
    CASE sc \in PolicyScripts \cup {"exportpp.py"} ->
            [d : {"Windows", "Mobile"}, n : {0, 1}]
      [] sc = "exportiocs.py" -> [d : {"sha256", "Meta"}, n : {1}]
      [] sc = "exportioarules.py" -> [d : {"-"}, n : {0, 1}]
      [] OTHER -> [d : {"-"}, n : {1}]

\* The resource the tenant holds under identifier i.
Attr(i) == srv.disc[((i - 1) % MaxItems) + 1]

\* ---------------------------------------------------------------- token
\* The answers of the token endpoint: status, and whether the body is JSON
\* with access_token ("token"), JSON without it ("json") or not JSON.
TokenResps ==
    {[status |-> 201, body |-> b] : b \in {"token", "json", "garbage"}}
        \cup {[status |-> 200, body |-> "token"], [status |-> 401, body |-> "json"]}

TokenRaise(requested, e) ==
    [st |-> "raised", requested |-> requested, err |-> e, name |-> "none"]

\* The status test of get_bearer_token: "resp.status_code != 201".
TokenStatusOkMut(st) == st \in {200, 201}

TokenStatusOk(st) == st = 201

\* get_bearer_token of the seven scripts that read the credentials at import.
get_bearer_token_std(e, r) ==
    IF ~(e.client_id /\ e.client_secret /\ e.client_name)
    THEN TokenRaise(FALSE, [msg |-> "credenciais nao encontradas no .env", fields |-> {}])
    ELSE IF ~TokenStatusOk(r.status)
    THEN TokenRaise(TRUE, [msg |-> "Falha na autenticacao", fields |-> {"status", "body"}])
    ELSE IF r.body = "garbage"
    THEN TokenRaise(TRUE, [msg |-> "Resposta de autenticacao invalida", fields |-> {"body"}])
    ELSE IF r.body = "json"
    THEN TokenRaise(TRUE, [msg |-> "KeyError: access_token", fields |-> {}])
    ELSE [st |-> "ok", requested |-> TRUE, err |-> NoErr, name |-> "env"]

\* get_bearer_token of exportpp.py: the client name falls back to input(),
\* only id and secret are required, and resp.json() is not guarded.
get_bearer_token_pp(e, r) ==
    IF ~(e.client_id /\ e.client_secret)
    THEN TokenRaise(FALSE, [msg |-> "credenciais devem estar definidas no .env", fields |-> {}])
    ELSE IF ~TokenStatusOk(r.status)
    THEN TokenRaise(TRUE, [msg |-> "Falha na autenticacao", fields |-> {"status", "body"}])
    ELSE IF r.body = "garbage"
    THEN TokenRaise(TRUE, [msg |-> "JSONDecodeError", fields |-> {}])
    ELSE IF r.body = "json"
    THEN TokenRaise(TRUE, [msg |-> "KeyError: access_token", fields |-> {}])
    ELSE [st |-> "ok", requested |-> TRUE, err |-> NoErr,
          name |-> IF e.client_name THEN "env" ELSE "input"]

\* main(): "token, base_url, client_name = get_bearer_token()".
get_bearer_token ==
    /\ pc = "token"
    /\ \E r \in TokenResps :
         LET out == IF script = "exportpp.py" THEN get_bearer_token_pp(env, r)
                    ELSE get_bearer_token_std(env, r) IN
         /\ nreq' = IF out.requested THEN Count("token", r) ELSE nreq
         /\ resps' = IF out.requested THEN Log(resps, r) ELSE resps
         /\ token' = IF out.st = "ok" THEN "tok" ELSE "none"
         /\ auth' = IF out.requested THEN r ELSE auth
         /\ client_name' = out.name
         /\ err' = out.err
         /\ pc' = IF out.st = "ok" THEN "list" ELSE "failed"
    /\ UNCHANGED <<fn, limit, offset, acc, fstate, ids, idx, reqs, printed, srv, trace>>
    /\ UNCHANGED <<script, env, kind, host_counts, per_type, book, written, file>>
    /\ UNCHANGED batchVars
    /\ UNCHANGED ppVars
    /\ UNCHANGED storeVars

\* ------------------------------------------------------- single requests
\* The one page a "limit=5000" (or 500) request returns: the whole collection.
WholeResps == TenantListResps(0, MaxItems, {0})

\* fetch_policies of exportusb / exportrp / exportsup, fetch_rule_group_ids,
\* fetch_total_hosts: status test, then a guarded resp.json().
single_body(r, what) ==
    IF r.status /= 200
    THEN [st |-> "raised", res |-> <<>>, err |-> [msg |-> what, fields |-> {"status", "body"}]]
    ELSE IF ~r.json
    THEN [st |-> "raised", res |-> <<>>,
          err |-> [msg |-> "Resposta da API invalida", fields |-> {"body"}]]
    ELSE [st |-> "returned", res |-> r.resources, err |-> NoErr]

\* exportusb / exportrp / exportsup main(): "policies = fetch_policies(...)".
fetch_policies ==
    /\ script \in PolicyScripts /\ pc = "list"
    /\ \E r \in WholeResps :
         LET out == single_body(r, "Falha ao buscar politicas") IN
         /\ acc' = out.res
         /\ err' = out.err
         /\ resps' = Log(resps, r)
         /\ nreq' = Count("list", r)
         /\ pc' = IF out.st = "returned" THEN "transform" ELSE "failed"
    /\ UNCHANGED <<fn, limit, offset, fstate, ids, idx, reqs, printed, srv, trace>>
    /\ UNCHANGED <<script, env, token, auth, kind, host_counts, per_type, book, written,
                   client_name, file>>
    /\ UNCHANGED batchVars
    /\ UNCHANGED ppVars
    /\ UNCHANGED storeVars

\* exportpp.fetch_policies, first request: the policies (resp.json() unguarded).
pp_fetch_policies ==
    /\ script = "exportpp.py" /\ pc = "list" /\ fn = "none"
    /\ \E r \in WholeResps :
         /\ resps' = Log(resps, r)
         /\ nreq' = Count("list", r)
         /\ IF r.status /= 200
            THEN /\ err' = [msg |-> "Falha ao buscar politicas", fields |-> {"status", "body"}]
                 /\ pc' = "failed" /\ UNCHANGED <<fn, acc>>
            ELSE IF ~r.json
            THEN /\ err' = [msg |-> "JSONDecodeError", fields |-> {}]
                 /\ pc' = "failed" /\ UNCHANGED <<fn, acc>>
            ELSE /\ acc' = r.resources /\ fn' = "fetch_policies"
                 /\ UNCHANGED <<pc, err>>
    /\ UNCHANGED <<limit, offset, fstate, ids, idx, reqs, printed, srv, trace>>
    /\ UNCHANGED <<script, env, token, auth, kind, host_counts, per_type, book, written,
                   client_name, file>>
    /\ UNCHANGED batchVars
    /\ UNCHANGED ppVars
    /\ UNCHANGED storeVars

\* exportpp.fetch_policies, second request: the members.  A non-200 answer is
\* only a warning; hosts names the policies that hosts are assigned to.
pp_fetch_members ==
    /\ script = "exportpp.py" /\ pc = "list" /\ fn = "fetch_policies"
    /\ \E r \in FailResps \cup {Resp(200, TRUE, <<>>, 0)}, hosts \in SUBSET (1..MaxItems) :
         /\ resps' = Log(resps, r)
         /\ nreq' = Count("list", r)
         /\ IF r.status /= 200
            THEN /\ host_counts' = {} /\ pc' = "transform" /\ UNCHANGED <<err, acc>>
            ELSE IF ~r.json
            THEN /\ err' = [msg |-> "JSONDecodeError", fields |-> {}]
                 /\ acc' = <<>>
                 /\ pc' = "failed" /\ UNCHANGED host_counts
            ELSE /\ host_counts' = hosts \cap Range(acc)
                 /\ pc' = "transform" /\ UNCHANGED <<err, acc>>
    /\ fn' = "none"
    /\ UNCHANGED <<limit, offset, fstate, ids, idx, reqs, printed, srv, trace>>
    /\ UNCHANGED <<script, env, token, auth, kind, per_type, book, written, client_name, file>>
    /\ UNCHANGED batchVars
    /\ UNCHANGED ppVars
    /\ UNCHANGED storeVars

\* exportioarules main(): "rule_group_ids = fetch_rule_group_ids(...)".
fetch_rule_group_ids ==
    /\ script = "exportioarules.py" /\ pc = "list"
    /\ \E r \in WholeResps :
         LET out == single_body(r, "Falha ao buscar IDs de grupos") IN
         /\ ids' = out.res
         /\ err' = out.err
         /\ resps' = Log(resps, r)
         /\ nreq' = Count("list", r)
         /\ pc' = IF out.st = "raised" THEN "failed"
                  ELSE IF out.res = <<>> THEN "transform" ELSE "hydrate"
    /\ idx' = 0
    /\ acc' = <<>>
    /\ UNCHANGED <<fn, limit, offset, fstate, reqs, printed, srv, trace>>
    /\ UNCHANGED <<script, env, token, auth, kind, host_counts, per_type, book, written,
                   client_name, file>>
    /\ UNCHANGED batchVars
    /\ UNCHANGED ppVars
    /\ UNCHANGED storeVars

\* exportioarules.fetch_rule_details on response r: it raises where
\* exportexclusions.fetch_details prints and continues.
rule_details_body(a, r) ==
    IF r.status /= 200
    THEN [st |-> "raised", acc |-> <<>>,
          err |-> [msg |-> "Falha ao buscar detalhes da regra", fields |-> {"status", "body"}]]
    ELSE IF ~r.json
    THEN [st |-> "raised", acc |-> <<>>,
          err |-> [msg |-> "Resposta da API invalida", fields |-> {"body"}]]
    ELSE [st |-> "returned", acc |-> a \o r.resources, err |-> NoErr]

\* exportioarules main(): one pass of "for rule_group_id in rule_group_ids".
fetch_rule_details ==
    /\ script = "exportioarules.py" /\ pc = "hydrate" /\ idx < Len(ids)
    /\ \E r \in DetailResps(ids[idx + 1]) :
         LET out == rule_details_body(acc, r) IN
         /\ acc' = out.acc
         /\ err' = out.err
         /\ resps' = Log(resps, r)
         /\ nreq' = Count("detail", r)
         /\ pc' = IF out.st = "raised" THEN "failed"
                  ELSE IF idx + 1 = Len(ids) THEN "transform" ELSE "hydrate"
    /\ idx' = idx + 1
    /\ UNCHANGED <<fn, limit, offset, fstate, ids, reqs, printed, srv, trace>>
    /\ UNCHANGED <<script, env, token, auth, kind, host_counts, per_type, book, written,
                   client_name, file>>
    /\ UNCHANGED batchVars
    /\ UNCHANGED ppVars
    /\ UNCHANGED storeVars

\* exporthostgroups main(): "total_hosts = fetch_total_hosts(...)".
fetch_total_hosts ==
    /\ script = "exporthostgroups.py" /\ pc = "list" /\ fn = "fetch_total_hosts"
    /\ \E r \in FailResps \cup {Resp(200, TRUE, <<>>, 0)} :
         LET out == single_body(r, "Falha ao buscar total de hosts") IN
         /\ err' = out.err
         /\ resps' = Log(resps, r)
         /\ nreq' = Count("list", r)
         /\ acc' = IF out.st = "returned" THEN acc ELSE <<>>
         /\ pc' = IF out.st = "returned" THEN "transform" ELSE "failed"
    /\ fn' = "none"
    /\ UNCHANGED <<limit, offset, fstate, ids, idx, reqs, printed, srv, trace>>
    /\ UNCHANGED <<script, env, token, auth, kind, host_counts, per_type, book, written,
                   client_name, file>>
    /\ UNCHANGED batchVars
    /\ UNCHANGED ppVars
    /\ UNCHANGED storeVars

\* ------------------------------------------------------ paged fetch calls
PagedFn(sc) ==
    CASE sc = "exportexclusions.py" -> "fetch_ids"
      [] sc = "exporthostgroups.py" -> "fetch_host_groups"
      [] sc = "exportiocs.py" -> "fetch_iocs"
      [] OTHER -> "none"

\* main() calls its paged fetch function: a fresh frame.
main_call ==
    /\ pc = "list" /\ fn = "none" /\ PagedFn(script) /= "none"
    /\ fn' = PagedFn(script)
    /\ fstate' = "loop"
    /\ offset' = 0
    /\ acc' = <<>>
    /\ kind' = IF script = "exportexclusions.py" THEN 1 ELSE kind
    /\ UNCHANGED <<limit, ids, idx, reqs, resps, printed, err, srv, nreq, trace>>
    /\ UNCHANGED <<script, pc, env, token, auth, host_counts, per_type, book, written,
                   client_name, file>>
    /\ UNCHANGED batchVars
    /\ UNCHANGED ppVars
    /\ UNCHANGED storeVars

\* exportiocs / exporthostgroups main(): the paged fetch returned.
main_listed ==
    /\ pc = "list" /\ fstate = "returned"
    /\ fn \in {"fetch_iocs", "fetch_host_groups"}
    /\ fstate' = "idle"
    /\ IF fn = "fetch_iocs"
       THEN fn' = "none" /\ pc' = "transform"
       ELSE fn' = "fetch_total_hosts" /\ pc' = pc
    /\ UNCHANGED <<limit, offset, acc, ids, idx, reqs, resps, printed, err, srv, nreq, trace>>
    /\ UNCHANGED <<script, env, token, auth, kind, host_counts, per_type, book, written,
                   client_name, file>>
    /\ UNCHANGED batchVars
    /\ UNCHANGED ppVars
    /\ UNCHANGED storeVars

\* exportexclusions main(): the step to the next kind, or to the write.
NextKindPcMut(k) == "list"

NextKindPc(k) == IF k = Len(ExclusionKinds) THEN "transform" ELSE "list"

\* exportexclusions main(): fetch_ids returned; "if ids:" calls fetch_details.
main_ids_listed ==
    /\ script = "exportexclusions.py" /\ fn = "fetch_ids" /\ fstate = "returned"
    /\ IF acc /= <<>>
       THEN /\ fn' = "fetch_details" /\ fstate' = "loop" /\ pc' = "hydrate"
            /\ ids' = acc /\ idx' = 0 /\ acc' = <<>> /\ offset' = 0
            /\ kind' = kind
       ELSE /\ pc' = NextKindPc(kind)
            /\ fn' = IF kind = Len(ExclusionKinds) THEN "none" ELSE "fetch_ids"
            /\ fstate' = IF kind = Len(ExclusionKinds) THEN "idle" ELSE "loop"
            /\ kind' = IF kind = Len(ExclusionKinds) THEN kind ELSE kind + 1
            /\ offset' = 0 /\ acc' = <<>>
            /\ UNCHANGED <<ids, idx>>
    /\ UNCHANGED <<limit, reqs, resps, printed, err, srv, nreq, trace>>
    /\ UNCHANGED <<script, env, token, auth, host_counts, per_type, book, written,
                   client_name, file>>
    /\ UNCHANGED batchVars
    /\ UNCHANGED ppVars
    /\ UNCHANGED storeVars

\* exportexclusions main(): fetch_details returned; the kind's sheet is built
\* from whatever was hydrated ("per_type[kind] = transform(details)").
main_hydrated ==
    /\ script = "exportexclusions.py" /\ fn = "fetch_details" /\ fstate = "returned"
    /\ per_type' = Append(per_type, [key |-> ExclusionKinds[kind], rows |-> Len(acc)])
    /\ pc' = NextKindPc(kind)
    /\ fn' = IF kind = Len(ExclusionKinds) THEN "none" ELSE "fetch_ids"
    /\ fstate' = IF kind = Len(ExclusionKinds) THEN "idle" ELSE "loop"
    /\ kind' = IF kind = Len(ExclusionKinds) THEN kind ELSE kind + 1
    /\ offset' = 0 /\ acc' = <<>> /\ ids' = <<>> /\ idx' = 0
    /\ UNCHANGED <<limit, reqs, resps, printed, err, srv, nreq, trace>>
    /\ UNCHANGED <<script, env, token, auth, host_counts, book, written, client_name, file>>
    /\ UNCHANGED batchVars
    /\ UNCHANGED ppVars
    /\ UNCHANGED storeVars

\* main(): "except Exception as e: print(...)" for an exception of a fetch function.
main_except ==
    /\ script /= "none" /\ fstate = "raised"
    /\ pc' = "failed"
    /\ fn' = "none"
    /\ fstate' = "idle"
    /\ UNCHANGED <<limit, offset, acc, ids, idx, reqs, resps, printed, err, srv, nreq, trace>>
    /\ UNCHANGED <<script, env, token, auth, kind, host_counts, per_type, book, written,
                   client_name, file>>
    /\ UNCHANGED batchVars
    /\ UNCHANGED ppVars
    /\ UNCHANGED storeVars

\* ------------------------------------------------------------- transform
RECURSIVE Distinct(_)
\* The distinct entries of s in the order of their first appearance: the key
\* order of a dict filled in a loop over s.
Distinct(s) ==
    IF s = <<>> THEN <<>>
    ELSE LET d == Distinct(SubSeq(s, 1, Len(s) - 1)) IN
         IF s[Len(s)] \in Range(d) THEN d ELSE Append(d, s[Len(s)])

\* transform_policies: "if so in ["Mobile", "Meta"]: continue".
SkippedPlatform(d) == d \in {"Mobile", "Meta"}

\* The items of a that route to sheet k.
Routed(a, k) == {i \in DOMAIN a : Attr(a[i]).d = k}

SomeSetting(a, k) == IF \E i \in Routed(a, k) : Attr(a[i]).n > 0 THEN 1 ELSE 0

\* The number of rows of sheet k, per script.
SheetRows(sc, a, hc, k) ==
    CASE sc = "exportpp.py" ->
            SomeSetting(a, k) + (IF \E i \in Routed(a, k) : a[i] \in hc THEN 1 ELSE 0)
      [] sc = "exportusb.py" -> 2 + SomeSetting(a, k)
      [] sc = "exportrp.py" -> SomeSetting(a, k)
      [] OTHER -> Cardinality(Routed(a, k))

\* transform_policies / transform_iocs: one sheet per discriminator value, in
\* first-appearance order.  Only the policy transforms skip Mobile and Meta.
TypeRouted(sc, a, hc) ==
    LET ds == [i \in DOMAIN a |-> Attr(a[i]).d]
        kept == IF sc = "exportiocs.py" THEN ds
                ELSE SelectSeq(ds, LAMBDA d : ~SkippedPlatform(d))
        keys == Distinct(kept)
    IN [j \in DOMAIN keys |-> [key |-> keys[j], rows |-> SheetRows(sc, a, hc, keys[j])]]

RECURSIVE RuleCount(_)
\* transform_rules: one row per rule of every fetched rule group.
RuleCount(a) == IF a = <<>> THEN 0 ELSE Attr(Head(a)).n + RuleCount(Tail(a))

\* The bundle main() hands to save_to_excel.
Transform(sc, a, hc, pt) ==
    CASE sc = "exportexclusions.py" -> pt
      [] sc = "exporthostgroups.py" -> <<[key |-> "HostGroups", rows |-> Len(a) + 1]>>
      [] sc = "exportioarules.py" -> <<[key |-> "IOARules", rows |-> RuleCount(a)]>>
      [] OTHER -> TypeRouted(sc, a, hc)

\* main()'s test for "nothing to export", per script.
NothingToExport(sc, a, b) ==
    CASE sc = "exporthostgroups.py" -> a = <<>>
      [] sc = "exportioarules.py" -> b[1].rows = 0
      [] OTHER -> b = <<>>

\* main(): the transform and the test that follows it.
main_transform ==
    /\ pc = "transform"
    /\ LET b == Transform(script, acc, host_counts, per_type) IN
         /\ per_type' = b
         /\ pc' = IF NothingToExport(script, acc, b) THEN "empty" ELSE "write"
    /\ UNCHANGED fetchVars
    /\ UNCHANGED <<script, env, token, auth, kind, host_counts, book, written, client_name, file>>
    /\ UNCHANGED batchVars
    /\ UNCHANGED ppVars
    /\ UNCHANGED storeVars

\* ----------------------------------------------------------- save_to_excel
\* Sheet names.  A key is cut to its first 31 characters; the keys of this
\* model that are longer are listed with their 31-character prefix.
LongKeys ==
    [k \in {"Sensor Anti-malware for End-User-A", "Sensor Anti-malware for End-User-B"}
        |-> "Sensor Anti-malware for End-Use"]

sheet_nameMut(k) == k

sheet_name(k) == IF k \in DOMAIN LongKeys THEN LongKeys[k] ELSE k

\* DataFrame.to_excel(writer, sheet_name=name): a sheet of that name already
\* in the workbook is written over in place, otherwise a sheet is appended.
to_excel(b, name, layer) ==
    IF \E i \in DOMAIN b : b[i].name = name
    THEN [i \in DOMAIN b |->
            IF b[i].name = name THEN [b[i] EXCEPT !.layers = Append(@, layer)] ELSE b[i]]
    ELSE Append(b, [name |-> name, layers |-> <<layer>>])

\* ExcelWriter.__exit__ -> close(): the workbook as it stands is saved to the
\* destination; a workbook without a sheet cannot be saved and the file
\* opened by the writer stays empty.
SaveBook(f, b) == IF b = <<>> THEN f ELSE [state |-> "workbook", sheets |-> b]

\* "with pd.ExcelWriter(outfile) as writer": the destination is opened for
\* writing (created, or cut to zero bytes), unless it cannot be opened.
save_open ==
    /\ pc = "write"
    /\ \E ok \in BOOLEAN :
         IF ok
         THEN /\ file' = [state |-> "empty", sheets |-> <<>>]
              /\ pc' = "sheets" /\ err' = err
         ELSE /\ file' = file
              /\ pc' = "failed" /\ err' = [msg |-> "OSError", fields |-> {}]
    /\ book' = <<>>
    /\ written' = 0
    /\ UNCHANGED <<fn, limit, offset, acc, fstate, ids, idx, reqs, resps, printed, srv,
                   nreq, trace>>
    /\ UNCHANGED <<script, env, token, auth, kind, host_counts, per_type, client_name>>
    /\ UNCHANGED batchVars
    /\ UNCHANGED ppVars
    /\ UNCHANGED storeVars

\* One pass of "for key, df in per_type.items(): df.to_excel(...)".  When
\* to_excel raises, the with block is left through __exit__, which saves.
save_sheet ==
    /\ pc = "sheets" /\ written < Len(per_type)
    /\ \E ok \in BOOLEAN :
         IF ok
         THEN /\ book' = to_excel(book, sheet_name(per_type[written + 1].key),
                                  per_type[written + 1].key)
              /\ written' = written + 1
              /\ UNCHANGED <<pc, file, err>>
         ELSE /\ file' = SaveBook(file, book)
              /\ pc' = "failed" /\ err' = [msg |-> "to_excel failed", fields |-> {}]
              /\ UNCHANGED <<book, written>>
    /\ UNCHANGED <<fn, limit, offset, acc, fstate, ids, idx, reqs, resps, printed, srv,
                   nreq, trace>>
    /\ UNCHANGED <<script, env, token, auth, kind, host_counts, per_type, client_name>>
    /\ UNCHANGED batchVars
    /\ UNCHANGED ppVars
    /\ UNCHANGED storeVars

\* "meta.to_excel(writer, sheet_name="Meta", index=False)", after the loop.
save_meta ==
    /\ pc = "sheets" /\ written = Len(per_type)
    /\ \E ok \in BOOLEAN :
         IF ok
         THEN /\ book' = to_excel(book, "Meta", "<meta>")
              /\ pc' = "close"
              /\ UNCHANGED <<file, err>>
         ELSE /\ file' = SaveBook(file, book)
              /\ pc' = "failed" /\ err' = [msg |-> "to_excel failed", fields |-> {}]
              /\ UNCHANGED book
    /\ UNCHANGED <<fn, limit, offset, acc, fstate, ids, idx, reqs, resps, printed, srv,
                   nreq, trace>>
    /\ UNCHANGED <<script, env, token, auth, kind, host_counts, per_type, written, client_name>>
    /\ UNCHANGED batchVars
    /\ UNCHANGED ppVars
    /\ UNCHANGED storeVars

\* The end of the with block: the workbook is saved, or the save fails and
\* the destination stays as the writer left it.
save_close ==
    /\ pc = "close"
    /\ \E ok \in BOOLEAN :
         IF ok
         THEN /\ file' = SaveBook(file, book)
              /\ pc' = "done" /\ err' = err
         ELSE /\ file' = file
              /\ pc' = "failed" /\ err' = [msg |-> "OSError", fields |-> {}]
    /\ UNCHANGED <<fn, limit, offset, acc, fstate, ids, idx, reqs, resps, printed, srv,
                   nreq, trace>>
    /\ UNCHANGED <<script, env, token, auth, kind, host_counts, per_type, book, written,
                   client_name>>
    /\ UNCHANGED batchVars
    /\ UNCHANGED ppVars
    /\ UNCHANGED storeVars

\* main() ends by returning normally on every path, also after "except
\* Exception": the interpreter's exit status is 0.
ExitStatus(p) == IF p \in {"done", "empty", "failed"} THEN 0 ELSE 1

\* ---------------------------------------------------------------- SpecRun
PagedScripts == {"exportexclusions.py", "exporthostgroups.py", "exportiocs.py"}

InitRun ==
    /\ script \in Range(Scripts)
    /\ pc = "token"
    /\ env \in [client_id : BOOLEAN, client_secret : BOOLEAN, client_name : BOOLEAN]
    /\ token = "none"
    /\ auth = NoAuth
    /\ kind = 0
    /\ host_counts = {}
    /\ per_type = <<>>
    /\ book = <<>>
    /\ written = 0
    /\ client_name = "none"
    /\ file \in {NoFile, [state |-> "previous", sheets |-> <<>>]}
    /\ fn = "none"
    /\ limit \in 1..MaxLimit
    /\ script \notin PagedScripts => limit = 1
    /\ offset = 0
    /\ idx = 0
    /\ acc = <<>>
    /\ fstate = "idle"
    /\ ids = <<>>
    /\ reqs = <<>>
    /\ resps = <<>>
    /\ printed = 0
    /\ err = NoErr
    /\ nreq = NoReq
    /\ trace = FALSE
    /\ srv \in {[kind |-> "tenant", total |-> 0, disc |-> c] :
                   c \in [1..MaxItems -> Descr(script)]}
    /\ BatchIdle
    /\ result = <<>>
    /\ previous = NoRun
    /\ StoreIdle

NextRun ==
    \/ get_bearer_token
    \/ fetch_policies
    \/ pp_fetch_policies
    \/ pp_fetch_members
    \/ fetch_rule_group_ids
    \/ fetch_rule_details
    \/ main_call
    \/ fetch_host_groups_iter
    \/ fetch_ids_iter
    \/ fetch_iocs_iter
    \/ fetch_details_iter
    \/ fetch_details_return
    \/ main_listed
    \/ fetch_total_hosts
    \/ main_ids_listed
    \/ main_hydrated
    \/ main_except
    \/ main_transform
    \/ save_open
    \/ save_sheet
    \/ save_meta
    \/ save_close

SpecRun == InitRun /\ [][NextRun]_vars

\* ------------------------------------------ exportpp.transform_policies
\* Strings are sequences of tokens: the words of the values and the two
\* separators ":" and "/" that the transform looks for.
StartsWith(s, p) == Len(p) <= Len(s) /\ SubSeq(s, 1, Len(p)) = p

\* "p in s".
Contains(s, p) == \E i \in 0..(Len(s) - Len(p)) : SubSeq(s, i + 1, i + Len(p)) = p

RECURSIVE Replace(_, _, _)
\* s.replace(p, r): every occurrence, from the left, without overlap.
Replace(s, p, r) ==
    IF s = <<>> THEN <<>>
    ELSE IF StartsWith(s, p) THEN r \o Replace(SubSeq(s, Len(p) + 1, Len(s)), p, r)
    ELSE <<Head(s)>> \o Replace(Tail(s), p, r)

RECURSIVE Split(_, _)
\* s.split(sep).
Split(s, sep) ==
    IF \A i \in DOMAIN s : s[i] /= sep THEN <<s>>
    ELSE LET i == CHOOSE j \in DOMAIN s : s[j] = sep /\ \A k \in 1..(j - 1) : s[k] /= sep
         IN <<SubSeq(s, 1, i - 1)>> \o Split(SubSeq(s, i + 1, Len(s)), sep)

RECURSIVE JoinItems(_)
\* "/".join(f"{k}:{v}" for k, v in value.items()).
JoinItems(items) ==
    IF items = <<>> THEN <<>>
    ELSE LET one == <<Head(items).k, ":">> \o Head(items).v IN
         IF Len(items) = 1 THEN one ELSE one \o <<"/">> \o JoinItems(Tail(items))

\* A setting value: a mapping (its items in order) or a plain value (its str()).
Mapping(items) == [dict |-> TRUE, items |-> items, s |-> <<>>]
Plain(s) == [dict |-> FALSE, items |-> <<>>, s |-> s]

\* "if isinstance(value, dict): ... else: value_str = str(value)".
value_str(value) == IF value.dict THEN JoinItems(value.items) ELSE value.s

\* The six replacements of transform_policies, in the order of the source.
collapse(vs) ==
    LET a == Replace(vs, <<"enabled", ":", "True">>, <<"True">>)
        b == Replace(a, <<"enabled", ":", "False">>, <<"False">>)
        c == Replace(b, <<"configured", ":", "True", "/", "True">>, <<"True">>)
        d == Replace(c, <<"configured", ":", "False", "/", "False">>, <<"False">>)
        e == Replace(d, <<"configured", ":", "True">>, <<"True">>)
    IN Replace(e, <<"configured", ":", "False">>, <<"False">>)

\* The value of the first part, whatever its key.
part_valueMut(parts, key) == Split(parts[1], ":")[2]

\* next((part.split(":")[1] for part in parts if part.startswith(key + ":")), "").
part_value(parts, key) ==
    IF \E i \in DOMAIN parts : StartsWith(parts[i], <<key, ":">>)
    THEN LET i == CHOOSE j \in DOMAIN parts :
                     /\ StartsWith(parts[j], <<key, ":">>)
                     /\ \A k \in 1..(j - 1) : ~StartsWith(parts[k], <<key, ":">>)
         IN Split(parts[i], ":")[2]
    ELSE <<>>

\* per_os[so][label][pol] = val, the row created at the end when it is new.
put(rows, label, pol, val) ==
    IF \E i \in DOMAIN rows : rows[i].label = label
    THEN [i \in DOMAIN rows |->
            IF rows[i].label = label
            THEN [rows[i] EXCEPT !.cells =
                     [q \in DOMAIN @ \cup {pol} |-> IF q = pol THEN val ELSE @[q]]]
            ELSE rows[i]]
    ELSE Append(rows, [label |-> label, cells |-> [q \in {pol} |-> val]])

ExtendedPrevention == <<"Extended User Mode Data", " (Prevention)">>

\* The body of "for s in settings_list" for one setting of policy pol.
put_setting(rows, pol, s) ==
    LET vs == collapse(value_str(s.value)) IN
    IF Contains(vs, <<"detection", ":">>) /\ Contains(vs, <<"prevention", ":">>)
    THEN LET parts == Split(vs, "/")
             detection_value == part_value(parts, "detection")
             prevention_value == part_value(parts, "prevention")
             r1 == IF detection_value /= <<>>
                   THEN put(rows, Append(s.name, " (Detection)"), pol, detection_value)
                   ELSE rows
         IN IF prevention_value /= <<>> /\ Append(s.name, " (Prevention)") /= ExtendedPrevention
            THEN put(r1, Append(s.name, " (Prevention)"), pol, prevention_value)
            ELSE r1
    ELSE put(rows, s.name, pol, vs)

RECURSIVE put_settings(_, _, _)
\* "for ps in prevention_settings: for s in settings_list", flattened.
put_settings(rows, pol, settings) ==
    IF settings = <<>> THEN rows
    ELSE put_settings(put_setting(rows, pol, Head(settings)), pol, Tail(settings))

\* The rows of platform so in per_os, none when the platform is not a key yet.
rows_of(per_os, so) ==
    IF \E i \in DOMAIN per_os : per_os[i].so = so
    THEN per_os[CHOOSE i \in DOMAIN per_os : per_os[i].so = so].rows
    ELSE <<>>

\* per_os[so] = rows, the key created at the end when it is new.
set_rows(per_os, so, rows) ==
    IF \E i \in DOMAIN per_os : per_os[i].so = so
    THEN [i \in DOMAIN per_os |-> IF per_os[i].so = so THEN [so |-> so, rows |-> rows]
                                  ELSE per_os[i]]
    ELSE Append(per_os, [so |-> so, rows |-> rows])

RECURSIVE per_os_after(_, _, _)
\* per_os after the first n passes of "for pol in policies"; policy i is
\* named i, and hc holds the names host_counts has a count for.
per_os_after(policies, hc, n) ==
    IF n = 0 THEN <<>>
    ELSE LET before == per_os_after(policies, hc, n - 1)
             pol == policies[n]
         IN IF SkippedPlatform(pol.so) THEN before
            ELSE LET set == put_settings(rows_of(before, pol.so), n, pol.settings)
                     counted == IF n \in hc THEN put(set, <<"Host Count">>, n, <<"count">>)
                                ELSE set
                 IN set_rows(before, pol.so, counted)

\* recommended.get(so, {}).get(motor, ""), for the rows of this model.
recommended(so, label) ==
    IF so \in {"Windows", "Mac"} /\ label = <<"Notify End Users">> THEN <<"ON">>
    ELSE IF so \in {"Windows", "Mac"}
            /\ label \in {<<"Cloud Anti-malware", " (Detection)">>,
                          <<"Cloud Anti-malware", " (Prevention)">>}
    THEN <<"AGGRESSIVE">>
    ELSE IF so = "Windows" /\ label = <<"Extended User Mode Data", " (Detection)">>
    THEN <<"MODERATE">>
    ELSE <<>>

\* df[col].replace({"True": "ON", "False": "OFF"}): whole cells only.
render(cell) ==
    IF cell = <<"True">> THEN <<"ON">> ELSE IF cell = <<"False">> THEN <<"OFF">> ELSE cell

\* transform_policies: one sheet per platform, a row per label with the
\* Recomended cell and the rendered cells of the policies that set it.
transform_policies(policies, hc) ==
    LET per_os == per_os_after(policies, hc, Len(policies)) IN
    [i \in DOMAIN per_os |->
        [so |-> per_os[i].so,
         rows |-> [j \in DOMAIN per_os[i].rows |->
                     [label |-> per_os[i].rows[j].label,
                      rec |-> recommended(per_os[i].so, per_os[i].rows[j].label),
                      cells |-> [q \in DOMAIN per_os[i].rows[j].cells |->
                                    render(per_os[i].rows[j].cells[q])]]]]]

\* main() of exportpp.py: "per_os = transform_policies(policies, host_counts)".
pp_transform ==
    /\ script = "exportpp.py" /\ pc = "transform"
    /\ result' = transform_policies(acc, host_counts)
    /\ previous' = previous
    /\ UNCHANGED storeVars
    /\ pc' = IF transform_policies(acc, host_counts) = <<>> THEN "empty" ELSE "write"
    /\ UNCHANGED fetchVars
    /\ UNCHANGED <<script, env, token, auth, kind, host_counts, per_type, book, written,
                   client_name, file>>
    /\ UNCHANGED batchVars

\* ------------------------------------------------------------------ SpecPP
\* One call of transform_policies: the policies the tenant returned and the
\* policies that hosts were counted for.
MaxPols == 2

Bools == {<<"True">>, <<"False">>}

Levels == {<<"MODERATE">>, <<>>}

Switches ==
    {Plain(b) : b \in Bools}
        \cup {Mapping(<<[k |-> "enabled", v |-> b]>>) : b \in Bools}
        \cup {Mapping(<<[k |-> "configured", v |-> b], [k |-> "enabled", v |-> c]>>) :
                 b \in Bools, c \in Bools}

Compounds ==
    {Mapping(<<[k |-> "detection", v |-> d], [k |-> "prevention", v |-> p]>>) :
        d \in Levels, p \in Levels}

Settings ==
    {[name |-> <<"Notify End Users">>, value |-> v] : v \in Switches}
        \cup {[name |-> <<"Cloud Anti-malware">>, value |-> v] : v \in Compounds}
        \cup {[name |-> <<"Extended User Mode Data">>,
               value |-> Mapping(<<[k |-> "detection", v |-> <<"MODERATE">>],
                                   [k |-> "prevention", v |-> <<"MODERATE">>]>>)],
              [name |-> ExtendedPrevention, value |-> Plain(<<"MODERATE">>)]}

PolicySet ==
    [so : {"Windows", "Mac", "Mobile"}, settings : {<<>>} \cup {<<s>> : s \in Settings}]

InitPP ==
    /\ script = "exportpp.py"
    /\ pc = "transform"
    /\ acc \in UNION {[1..n -> PolicySet] : n \in 0..MaxPols}
    /\ host_counts \in SUBSET (1..MaxPols)
    /\ result = <<>>
    /\ previous = NoRun
    /\ StoreIdle
    /\ env = [client_id |-> TRUE, client_secret |-> TRUE, client_name |-> TRUE]
    /\ token = "tok"
    /\ auth = [status |-> 201, body |-> "token"]
    /\ kind = 0
    /\ per_type = <<>>
    /\ book = <<>>
    /\ written = 0
    /\ client_name = "env"
    /\ file = NoFile
    /\ fn = "none"
    /\ limit = 1
    /\ offset = 0
    /\ idx = 0
    /\ fstate = "idle"
    /\ ids = <<>>
    /\ reqs = <<>>
    /\ resps = <<>>
    /\ printed = 0
    /\ err = NoErr
    /\ nreq = NoReq
    /\ trace = FALSE
    /\ srv = [kind |-> "tenant", total |-> 0, disc |-> <<>>]
    /\ BatchIdle

NextPP ==
    \/ pp_transform

SpecPP == InitPP /\ [][NextPP]_vars

\* ------------------------------------------- claims about transform_policies
Transformed == pc /= "transform"

\* The sheet of platform so has a row labelled label.
HasRow(so, label) ==
    \E i \in DOMAIN result :
        /\ result[i].so = so
        /\ \E j \in DOMAIN result[i].rows : result[i].rows[j].label = label

\* The row labelled label of the sheet of so shows v in the column of policy n.
HasCell(so, label, n, v) ==
    \E i \in DOMAIN result :
        /\ result[i].so = so
        /\ \E j \in DOMAIN result[i].rows :
              /\ result[i].rows[j].label = label
              /\ n \in DOMAIN result[i].rows[j].cells
              /\ result[i].rows[j].cells[n] = v

HasKey(value, key) == value.dict /\ \E i \in DOMAIN value.items : value.items[i].k = key

ItemValue(value, key) ==
    value.items[CHOOSE i \in DOMAIN value.items : value.items[i].k = key].v

Compound(value) == HasKey(value, "detection") /\ HasKey(value, "prevention")

Switch(value) == HasKey(value, "enabled") \/ HasKey(value, "configured")

\* The settings the transform reads: policy n of a kept platform, setting i.
Read == {<<n, i>> \in (DOMAIN acc) \X (1..1) :
            ~SkippedPlatform(acc[n].so) /\ i \in DOMAIN acc[n].settings}

NoCell(so, label, n) ==
    \A i \in DOMAIN result : \A j \in DOMAIN result[i].rows :
        (result[i].so = so /\ result[i].rows[j].label = label) =>
            n \notin DOMAIN result[i].rows[j].cells

\* What policy n shows under label for the value v of one side of a setting:
\* the value when it is not empty, nothing when it is.
Shown(so, label, n, v) ==
    IF v /= <<>> THEN HasCell(so, label, n, v) ELSE NoCell(so, label, n)

C18_ExtendedPreventionNeverShown ==
    Transformed =>
        /\ \A i \in DOMAIN result : ~HasRow(result[i].so, ExtendedPrevention)
        /\ \A r \in Read :
              LET s == acc[r[1]].settings[r[2]] IN
              (Compound(s.value) /\ s.name = <<"Extended User Mode Data">>) =>
                  HasCell(acc[r[1]].so, <<"Extended User Mode Data", " (Detection)">>, r[1],
                          ItemValue(s.value, "detection"))

\* C19: every value of the shape enabled:<bool> or configured:<bool>[/<bool>]
\* shows as "ON" or "OFF" in the column of its policy; no policy cell shows
\* "True", "False" or a mixed form; the Recomended cells are the table's.
C19_SwitchesShowOnOrOff ==
    Transformed =>
        /\ \A r \in Read :
              LET s == acc[r[1]].settings[r[2]] IN
              Switch(s.value) =>
                  \/ HasCell(acc[r[1]].so, s.name, r[1], <<"ON">>)
                  \/ HasCell(acc[r[1]].so, s.name, r[1], <<"OFF">>)
        /\ \A i \in DOMAIN result : \A j \in DOMAIN result[i].rows :
              /\ \A q \in DOMAIN result[i].rows[j].cells :
                    \A t \in DOMAIN result[i].rows[j].cells[q] :
                        result[i].rows[j].cells[q][t] \notin {"True", "False"}
              /\ result[i].rows[j].rec = recommended(result[i].so, result[i].rows[j].label)

\* C20: every platform sheet has exactly one "Host Count" row, after all its
\* setting rows, with an empty Recomended cell, and as many rows as it has
\* distinct setting names plus one.
C20_OneHostCountRowLast ==
    Transformed =>
        \A i \in DOMAIN result :
            LET rows == result[i].rows
                names == {rows[j].label : j \in DOMAIN rows} \ {<<"Host Count">>}
            IN /\ Len(rows) = Cardinality(names) + 1
               /\ rows[Len(rows)].label = <<"Host Count">>
               /\ rows[Len(rows)].rec = <<>>
               /\ \A j \in 1..(Len(rows) - 1) : rows[j].label /= <<"Host Count">>

\* ------------------------------------------------ the transforms, one by one
\* The state around one call of a transform from main(): the token was
\* obtained, the fetch returned, nothing was written.
AfterFetch ==
    /\ pc = "transform"
    /\ env = [client_id |-> TRUE, client_secret |-> TRUE, client_name |-> TRUE]
    /\ token = "tok"
    /\ auth = [status |-> 201, body |-> "token"]
    /\ kind = 0
    /\ per_type = <<>>
    /\ book = <<>>
    /\ written = 0
    /\ client_name = "env"
    /\ file = NoFile
    /\ fn = "none"
    /\ limit = 1
    /\ offset = 0
    /\ idx = 0
    /\ fstate = "idle"
    /\ ids = <<>>
    /\ reqs = <<>>
    /\ resps = <<>>
    /\ printed = 0
    /\ err = NoErr
    /\ nreq = NoReq
    /\ trace = FALSE
    /\ srv = [kind |-> "tenant", total |-> 0, disc |-> <<>>]
    /\ BatchIdle

\* What a transform leaves alone: it is a pure function of its argument.
TransformFrame ==
    /\ UNCHANGED fetchVars
    /\ UNCHANGED previous
    /\ UNCHANGED storeVars
    /\ UNCHANGED <<script, env, token, auth, kind, host_counts, per_type, book, written,
                   client_name, file>>
    /\ UNCHANGED batchVars

\* per_os[so].append(row), the key created at the end when it is new.
append_row(per_os, so, row) == set_rows(per_os, so, Append(rows_of(per_os, so), row))

\* ------------------------------------------- exportsup.transform_policies
\* A build string is a sequence of characters.
lower(s) == [i \in DOMAIN s |-> IF s[i] = "N" THEN "n" ELSE s[i]]

\* The reading of "elif": n-1 is looked for whether or not n-2 was found.
normalize_buildMut(build) ==
    IF build /= <<>> /\ Contains(lower(build), <<"n">>)
    THEN IF Contains(lower(build), <<"n", "-", "1">>) THEN <<"N", "-", "1">>
         ELSE IF Contains(lower(build), <<"n", "-", "2">>) THEN <<"N", "-", "2">>
         ELSE <<"N">>
    ELSE build

\* "if build: if "n" in build.lower(): ..." of transform_policies.
normalize_build(build) ==
    IF build /= <<>> /\ Contains(lower(build), <<"n">>)
    THEN IF Contains(lower(build), <<"n", "-", "2">>) THEN <<"N", "-", "2">>
         ELSE IF Contains(lower(build), <<"n", "-", "1">>) THEN <<"N", "-", "1">>
         ELSE <<"N">>
    ELSE build

\* uninstall_protection: a bool becomes "Enabled"/"Disabled", absent is "".
protection(up) ==
    CASE up = "true" -> "Enabled" [] up = "false" -> "Disabled" [] OTHER -> ""

\* pol.get("platform_name", "Unknown") / ioc.get("type", "Unknown").
discriminator(r) == IF r.so = "none" THEN "Unknown" ELSE r.so

\* pol.get("name", "Unnamed").
policy_name(pol) == IF pol.name = "none" THEN "Unnamed" ELSE pol.name

RECURSIVE sup_per_os(_, _)
\* per_os after the first n passes of "for pol in policies".
sup_per_os(policies, n) ==
    IF n = 0 THEN <<>>
    ELSE LET before == sup_per_os(policies, n - 1)
             pol == policies[n]
             so == discriminator(pol)
         IN IF SkippedPlatform(so) THEN before
            ELSE append_row(before, so,
                            [name |-> policy_name(pol), build |-> normalize_build(pol.build),
                             uninstall_protection |-> protection(pol.up)])

sup_transform_policies(policies) == sup_per_os(policies, Len(policies))

\* main() of exportsup.py: "per_os = transform_policies(policies)".
sup_transform ==
    /\ script = "exportsup.py" /\ pc = "transform"
    /\ result' = sup_transform_policies(acc)
    /\ pc' = IF sup_transform_policies(acc) = <<>> THEN "empty" ELSE "write"
    /\ acc' = acc
    /\ TransformFrame

\* ----------------------------------------------------------------- SpecSup
\* One call of the sensor-update transform on one policy; a build string is
\* long enough to hold both "n-1" and "n-2".
MaxBuild == 6

BuildChars == {"n", "N", "-", "1", "2"}

Builds == UNION {[1..n -> BuildChars] : n \in 0..MaxBuild}

SupPolicies ==
    [so : {"Windows", "Mobile"}, name : {"A"}, build : Builds, up : {"true", "absent"}]

InitSup ==
    /\ script = "exportsup.py"
    /\ acc \in {<<p>> : p \in SupPolicies}
    /\ host_counts = {}
    /\ result = <<>>
    /\ previous = NoRun
    /\ StoreIdle
    /\ AfterFetch

NextSup ==
    \/ sup_transform

SpecSup == InitSup /\ [][NextSup]_vars

\* C21: for every non-empty build string, the build cell is "N-2" when the
\* string holds "n-2" in any letter case (also when it holds "n-1" too),
\* else "N-1" when it holds "n-1", else "N" when it holds the letter n, else
\* the string itself.
HasAt(s, p) ==
    \E i \in 1..(Len(s) - Len(p) + 1) :
        \A j \in 1..Len(p) : s[i + j - 1] \in p[j]

RECURSIVE per_type_after(_, _)
\* per_type after the first n passes of "for ioc in iocs".
per_type_after(iocs, n) ==
    IF n = 0 THEN <<>>
    ELSE append_row(per_type_after(iocs, n - 1), discriminator(iocs[n]),
                    [value |-> iocs[n].value, original_filename |-> "",
                     action |-> iocs[n].action, platforms |-> ""])

transform_iocs(iocs) == per_type_after(iocs, Len(iocs))

\* main() of exportiocs.py: "per_type = transform_iocs(iocs)".
iocs_transform ==
    /\ script = "exportiocs.py" /\ pc = "transform"
    /\ result' = transform_iocs(acc)
    /\ pc' = IF transform_iocs(acc) = <<>> THEN "empty" ELSE "write"
    /\ acc' = acc
    /\ TransformFrame

\* ------------------------------------------- exportusb.transform_policies
\* d[k] = v on a dict kept as a sequence of [k, v]: a new key goes to the
\* end, an old key keeps its place.
dict_set(d, k, v) ==
    IF \E i \in DOMAIN d : d[i].k = k
    THEN [i \in DOMAIN d |-> IF d[i].k = k THEN [k |-> k, v |-> v] ELSE d[i]]
    ELSE Append(d, [k |-> k, v |-> v])

\* d.get(k, default).
dict_get(d, k, default) ==
    IF \E i \in DOMAIN d : d[i].k = k
    THEN d[CHOOSE i \in DOMAIN d : d[i].k = k].v
    ELSE default

dict_keys(d) == [i \in DOMAIN d |-> d[i].k]

RECURSIVE with_classes(_, _)
\* "for cls in classes: if motor_id and action: config_values[motor_id] = action".
with_classes(config_values, classes) ==
    IF classes = <<>> THEN config_values
    ELSE LET cls == Head(classes)
             next == IF cls.id /= "" /\ cls.action /= ""
                     THEN dict_set(config_values, cls.id, cls.action)
                     ELSE config_values
         IN with_classes(next, Tail(classes))

\* The config_values of one policy.
usb_config_values(pol) ==
    with_classes(<<[k |-> "enforcement_mode", v |-> pol.enforcement_mode],
                   [k |-> "end_user_notification", v |-> pol.end_user_notification]>>,
                 pol.classes)

RECURSIVE usb_per_so(_, _)
\* per_so_policy_configs after the first n passes of "for pol in policies":
\* per platform, a dict from policy name to config_values.
usb_per_so(policies, n) ==
    IF n = 0 THEN <<>>
    ELSE LET before == usb_per_so(policies, n - 1)
             pol == policies[n]
             so == discriminator(pol)
         IN IF SkippedPlatform(so) THEN before
            ELSE set_rows(before, so,
                          dict_set(rows_of(before, so), policy_name(pol),
                                   usb_config_values(pol)))

\* configs.extend([k for k in keys if k not in configs]): the test sees the
\* list as it was before the extend.
extend_new(configs, keys) ==
    configs \o SelectSeq(keys, LAMBDA k : k \notin Range(configs))

RECURSIVE usb_configs(_, _)
\* configs after the first n passes of "for config_dict in policy_configs.values()".
usb_configs(policy_configs, n) ==
    IF n = 0 THEN <<"enforcement_mode", "end_user_notification">>
    ELSE extend_new(usb_configs(policy_configs, n - 1), dict_keys(policy_configs[n].v))

\* transform_policies of exportusb.py: per platform the index (configs) and
\* one column per policy name.
usb_transform_policies(policies) ==
    LET per_so == usb_per_so(policies, Len(policies)) IN
    [i \in DOMAIN per_so |->
        LET policy_configs == per_so[i].rows
            configs == usb_configs(policy_configs, Len(policy_configs))
        IN [so |-> per_so[i].so,
            index |-> configs,
            cols |-> [j \in DOMAIN policy_configs |->
                        [name |-> policy_configs[j].k,
                         cells |-> [c \in DOMAIN configs |->
                                      dict_get(policy_configs[j].v, configs[c], "")]]]]]

\* main() of exportusb.py: "per_os = transform_policies(policies)".
usb_transform ==
    /\ script = "exportusb.py" /\ pc = "transform"
    /\ result' = usb_transform_policies(acc)
    /\ pc' = IF usb_transform_policies(acc) = <<>> THEN "empty" ELSE "write"
    /\ acc' = acc
    /\ TransformFrame

\* --------------------------------------------------------------- SpecRoute
\* One call of a type-routed transform on a list of resources, some of them
\* without a discriminator, some without a name.
MaxRes == 2

Iocs == [so : {"sha256", "domain", "none"}, value : {"v1", "v2"}, action : {"", "prevent"}]

RoutedSup ==
    [so : {"Windows", "Mobile", "none"}, name : {"A", "B", "none"},
     build : {<<>>, <<"n", "-", "1">>}, up : {"absent"}]

UsbClasses ==
    {<<>>, <<[id |-> "MASS_STORAGE", action |-> "BLOCK_ALL"]>>,
     <<[id |-> "PRINTER", action |-> "FULL_ACCESS"]>>,
     <<[id |-> "PRINTER", action |-> ""]>>}

UsbPolicies ==
    [so : {"Windows", "Mobile", "none"}, name : {"A", "B", "none"},
     enforcement_mode : {"", "MONITOR_ONLY"}, end_user_notification : {""},
     classes : UsbClasses]

ListsOf(S) == UNION {[1..n -> S] : n \in 0..MaxRes}

InitRoute ==
    /\ \/ script = "exportiocs.py" /\ acc \in ListsOf(Iocs)
       \/ script = "exportsup.py" /\ acc \in ListsOf(RoutedSup)
       \/ script = "exportusb.py" /\ acc \in ListsOf(UsbPolicies)
    /\ host_counts = {}
    /\ result = <<>>
    /\ previous = NoRun
    /\ StoreIdle
    /\ AfterFetch

NextRoute ==
    \/ iocs_transform
    \/ sup_transform
    \/ usb_transform

SpecRoute == InitRoute /\ [][NextRoute]_vars

\* ---------------------------------------------- claims about the fan-out
\* The number of resources a sheet shows: its policy columns for the USB
\* export, its rows for the others.
SheetSize(sheet) == IF script = "exportusb.py" THEN Len(sheet.cols) ELSE Len(sheet.rows)

RECURSIVE SumSizes(_)
SumSizes(sheets) ==
    IF sheets = <<>> THEN 0 ELSE SheetSize(Head(sheets)) + SumSizes(Tail(sheets))

\* The resources of the input whose discriminator is d.
Of(d) == {i \in DOMAIN acc : discriminator(acc[i]) = d}

\* C22: every resource is in exactly one sheet, the one keyed by its
\* discriminator ("Unknown" when it has none): that sheet exists once and
\* shows as many resources as the input has for it, and the sizes of all
\* sheets add up to the number of input resources.
C22_EveryResourceInItsSheet ==
    pc /= "transform" =>
        /\ \A i \in DOMAIN acc :
              /\ Cardinality({j \in DOMAIN result : result[j].so = discriminator(acc[i])}) = 1
              /\ \A j \in DOMAIN result :
                    result[j].so = discriminator(acc[i]) =>
                        SheetSize(result[j]) = Cardinality(Of(discriminator(acc[i])))
        /\ SumSizes(result) = Len(acc)

\* --------------------------------------------- exportioarules.transform_rules
Targets ==
    {"ImageFilename", "CommandLine", "ParentImageFilename", "ParentCommandLine",
     "GrandparentImageFilename", "GrandparentCommandLine"}

\* A field_values entry: its name and its "values" key, which is absent or a
\* list of objects, each with or without a "value" key ("none": without).
NoValues == [present |-> FALSE, list |-> <<>>]

Values(l) == [present |-> TRUE, list |-> l]

\* The entries of field_values named target, in order.
named(field_values, target) == SelectSeq(field_values, LAMBDA fv : fv.name = target)

\* fv.get("values", [{}])[0] raises IndexError on a "values" that is present and empty.
first_raises(fv) == fv.values.present /\ fv.values.list = <<>>

\* fv.get("values", [{}])[0].get("value", "").
first_value(fv) ==
    IF ~fv.values.present \/ fv.values.list[1] = "none" THEN "" ELSE fv.values.list[1]

\* next((fv.get("values", [{}])[0].get("value", "") for fv in field_values
\*       if fv.get("name") == target), ""): only the first entry of that name
\* is evaluated.
extract(field_values, target) ==
    LET m == named(field_values, target) IN
    IF m = <<>> THEN "" ELSE first_value(m[1])

extract_raises(field_values, target) ==
    LET m == named(field_values, target) IN m /= <<>> /\ first_raises(m[1])

rule_raises(rule) == \E t \in Targets : extract_raises(rule.field_values, t)

\* The row transform_rules appends for one rule.
rule_row(rule) ==
    [name |-> IF rule.name = "none" THEN "" ELSE rule.name,
     fields |-> [t \in Targets |-> extract(rule.field_values, t)]]

RECURSIVE rows_of_rules(_)
rows_of_rules(rules) ==
    IF rules = <<>> THEN <<>> ELSE <<rule_row(Head(rules))>> \o rows_of_rules(Tail(rules))

RECURSIVE all_rules(_)
\* "for rule_group in rule_details: for rule in rule_group.get("rules", [])".
all_rules(rule_details) ==
    IF rule_details = <<>> THEN <<>>
    ELSE Head(rule_details).rules \o all_rules(Tail(rule_details))

\* main() of exportioarules.py: "df = transform_rules(all_rule_details)"; an
\* exception of the transform is caught by main()'s except clause.
ioa_transform ==
    /\ script = "exportioarules.py" /\ pc = "transform"
    /\ LET rules == all_rules(acc) IN
         IF \E i \in DOMAIN rules : rule_raises(rules[i])
         THEN /\ pc' = "failed"
              /\ result' = <<>>
         ELSE /\ pc' = IF rules = <<>> THEN "empty" ELSE "write"
              /\ result' = <<[so |-> "IOARules", rows |-> rows_of_rules(rules)]>>
    /\ acc' = acc
    /\ TransformFrame

\* ------------------------------------------------------------------ SpecIoa
\* One call of transform_rules on one rule group with at most one rule.
MaxFields == 2

FieldValues ==
    [name : {"ImageFilename", "CommandLine", "Other"},
     values : {NoValues, Values(<<>>), Values(<<"none">>), Values(<<"a.exe">>),
               Values(<<"b.exe">>), Values(<<"a.exe", "b.exe">>)}]

Rules ==
    [name : {"none", "R"}, field_values : UNION {[1..n -> FieldValues] : n \in 0..MaxFields}]

InitIoa ==
    /\ script = "exportioarules.py"
    /\ acc \in {<<[rules |-> rs]>> : rs \in {<<>>} \cup {<<r>> : r \in Rules}}
    /\ host_counts = {}
    /\ result = <<>>
    /\ previous = NoRun
    /\ StoreIdle
    /\ AfterFetch

NextIoa ==
    \/ ioa_transform

SpecIoa == InitIoa /\ [][NextIoa]_vars

\* C23: for each target field name the cell holds the first value of the
\* first field_values entry of that name, and the empty string when there is
\* no such entry or the entry has no values; the transform never raises.
C23_FirstMatchOrEmpty ==
    (pc /= "transform" /\ acc[1].rules /= <<>>) =>
        /\ pc /= "failed"
        /\ result /= <<>>
        /\ \A t \in Targets :
              LET fvs == acc[1].rules[1].field_values
                  hits == {i \in DOMAIN fvs : fvs[i].name = t}
                  cell == result[1].rows[1].fields[t]
              IN IF hits = {} THEN cell = ""
                 ELSE LET i == CHOOSE h \in hits : \A g \in hits : h <= g IN
                      IF ~fvs[i].values.present \/ fvs[i].values.list = <<>> THEN cell = ""
                      ELSE cell = (IF fvs[i].values.list[1] = "none" THEN ""
                                   ELSE fvs[i].values.list[1])

\* --------------------------------------------- the tables the sheets are
\* The marker pandas puts in a cell no value was given for.
NaN == <<"NaN">>

\* The policies that have a cell in some row: the policy columns of the table.
policy_columns(rows) == UNION {DOMAIN rows[j].cells : j \in DOMAIN rows}

\* pd.DataFrame.from_dict(motors, orient="index"): one row per label, one
\* column per policy of any row, NaN where the row has no value for a policy.
from_dict(rows) ==
    [columns |-> policy_columns(rows),
     rows |-> [j \in DOMAIN rows |->
                 [rows[j] EXCEPT !.cells =
                     [q \in policy_columns(rows) |->
                         IF q \in DOMAIN rows[j].cells THEN rows[j].cells[q] ELSE NaN]]]]

\* ---------------------------------------------------------------- SpecFrame
\* One call of a policy transform whose sheets have one column per policy:
\* policies of one platform that define different settings.
FramePP ==
    [so : {"Windows", "Mac"},
     settings : {<<>>, <<[name |-> <<"Notify End Users">>, value |-> Plain(<<"True">>)]>>,
                 <<[name |-> <<"Cloud Anti-malware">>,
                    value |-> Mapping(<<[k |-> "detection", v |-> <<"MODERATE">>],
                                        [k |-> "prevention", v |-> <<"MODERATE">>]>>)]>>,
                 <<[name |-> <<"Cloud Anti-malware">>,
                    value |-> Mapping(<<[k |-> "detection", v |-> <<>>],
                                        [k |-> "prevention", v |-> <<"MODERATE">>]>>)]>>}]

FrameUsb ==
    [so : {"Windows", "Mac"}, name : {"A", "B"}, enforcement_mode : {"", "MONITOR_ONLY"},
     end_user_notification : {""},
     classes : {<<>>, <<[id |-> "MASS_STORAGE", action |-> "BLOCK_ALL"]>>,
                <<[id |-> "PRINTER", action |-> "FULL_ACCESS"]>>}]

InitFrame ==
    /\ \/ script = "exportpp.py" /\ acc \in ListsOf(FramePP)
                                 /\ host_counts \in SUBSET (1..MaxRes)
       \/ script = "exportusb.py" /\ acc \in ListsOf(FrameUsb) /\ host_counts = {}
    /\ result = <<>>
    /\ previous = NoRun
    /\ StoreIdle
    /\ AfterFetch

NextFrame ==
    \/ pp_transform
    \/ usb_transform

SpecFrame == InitFrame /\ [][NextFrame]_vars

\* ------------------------------------------------- claims about the tables
\* The policies of platform so, in input order, that are named nm.
Named(so, nm) ==
    {i \in DOMAIN acc : discriminator(acc[i]) = so /\ policy_name(acc[i]) = nm}

\* The USB policy a column shows: the last one of that name on that platform.
Shows(so, nm) == CHOOSE i \in Named(so, nm) : \A g \in Named(so, nm) : g <= i

\* The action the USB policy i gives to class c, "" when it gives none.
ActionOf(i, c) ==
    IF \E k \in DOMAIN acc[i].classes : acc[i].classes[k].id = c
    THEN acc[i].classes[CHOOSE k \in DOMAIN acc[i].classes : acc[i].classes[k].id = c].action
    ELSE ""

\* The labels policy n of the prevention export has a value for.
Defines(n, label) ==
    \/ label = <<"Host Count">> /\ n \in host_counts
    \/ \E i \in DOMAIN acc[n].settings :
          LET s == acc[n].settings[i] IN
          IF Compound(s.value)
          THEN \/ label = Append(s.name, " (Detection)")
                    /\ ItemValue(s.value, "detection") /= <<>>
               \/ label = Append(s.name, " (Prevention)")
                    /\ ItemValue(s.value, "prevention") /= <<>>
          ELSE label = s.name

\* C24: in every sheet every row has as many cells as the sheet has headers,
\* and the cell of a setting a policy does not define is the empty string,
\* never a missing value; sheets of two policies with different settings
\* included.
C24_AbsentCellsAreEmptyStrings ==
    pc /= "transform" =>
        \A i \in DOMAIN result :
            IF script = "exportusb.py"
            THEN \A j \in DOMAIN result[i].cols :
                    /\ Len(result[i].cols[j].cells) = Len(result[i].index)
                    /\ \A c \in 3..Len(result[i].index) :
                          result[i].cols[j].cells[c] =
                              ActionOf(Shows(result[i].so, result[i].cols[j].name),
                                       result[i].index[c])
            ELSE LET df == from_dict(result[i].rows) IN
                 \A j \in DOMAIN df.rows :
                    /\ DOMAIN df.rows[j].cells = df.columns
                    /\ \A q \in df.columns :
                          /\ df.rows[j].cells[q] /= NaN
                          /\ ~Defines(q, df.rows[j].label) => df.rows[j].cells[q] = <<>>

\* -------------------------------------------- exportrp.transform_policies
\* "Enabled" if enabled else "Disabled"; enabled is value.enabled, False
\* when the setting has no value.
rp_cell(setting) == IF setting.value = "true" THEN "Enabled" ELSE "Disabled"

RECURSIVE rp_config_values(_, _)
\* config_values after the first n settings of the policy's setting group.
rp_config_values(settings, n) ==
    IF n = 0 THEN <<>>
    ELSE dict_set(rp_config_values(settings, n - 1), settings[n].name, rp_cell(settings[n]))

RECURSIVE rp_per_so(_, _)
\* per_so_policy_configs after the first n passes of "for pol in policies".
rp_per_so(policies, n) ==
    IF n = 0 THEN <<>>
    ELSE LET before == rp_per_so(policies, n - 1)
             pol == policies[n]
             so == discriminator(pol)
         IN IF SkippedPlatform(so) THEN before
            ELSE set_rows(before, so,
                          dict_set(rows_of(before, so), policy_name(pol),
                                   rp_config_values(pol.settings, Len(pol.settings))))

\* "motors = set(); motors.update(config_dict.keys())".
rp_motors(policy_configs) ==
    UNION {Range(dict_keys(policy_configs[j].v)) : j \in DOMAIN policy_configs}

\* The orders a set of strings can be iterated in: the order follows the
\* hashes of the strings, which are salted anew in every interpreter.
Orders(S) == {o \in [1..Cardinality(S) -> S] : Range(o) = S}

\* The sheet of one platform, its motors iterated in the order given.
rp_sheet(so, policy_configs, motors) ==
    [so |-> so,
     index |-> motors,
     cols |-> [j \in DOMAIN policy_configs |->
                 [name |-> policy_configs[j].k,
                  cells |-> [c \in DOMAIN motors |->
                               dict_get(policy_configs[j].v, motors[c], "")]]]]

\* The results transform_policies of exportrp.py can return.
rp_transform_policies(policies) ==
    LET per_so == rp_per_so(policies, Len(policies)) IN
    {sheets \in [DOMAIN per_so ->
                    UNION {{rp_sheet(per_so[i].so, per_so[i].rows, o) :
                               o \in Orders(rp_motors(per_so[i].rows))} :
                           i \in DOMAIN per_so}] :
        \A i \in DOMAIN per_so :
            \E o \in Orders(rp_motors(per_so[i].rows)) :
                sheets[i] = rp_sheet(per_so[i].so, per_so[i].rows, o)}

\* main() of exportrp.py: "per_os = transform_policies(policies)".
rp_transform ==
    /\ script = "exportrp.py" /\ pc = "transform"
    /\ \E sheets \in rp_transform_policies(acc) :
         /\ result' = sheets
         /\ pc' = IF sheets = <<>> THEN "empty" ELSE "write"
    /\ acc' = acc
    /\ TransformFrame

\* The exporter is started again, by a new interpreter, while the tenant
\* still answers as before: fetch_policies returns the same list.
run_again ==
    /\ pc \in {"empty", "write"}
    /\ ~previous.ran
    /\ previous' = [ran |-> TRUE, sheets |-> result]
    /\ result' = <<>>
    /\ pc' = "transform"
    /\ acc' = acc
    /\ UNCHANGED <<fn, limit, offset, fstate, ids, idx, reqs, resps, printed, err, srv, nreq,
                   trace>>
    /\ UNCHANGED <<script, env, token, auth, kind, host_counts, per_type, book, written,
                   client_name, file>>
    /\ UNCHANGED batchVars
    /\ UNCHANGED storeVars

\* ---------------------------------------------------------------- SpecTwice
\* Two runs of one exporter against the same upstream data.
RpPolicies ==
    [so : {"Windows", "Mobile"}, name : {"A", "B"},
     settings : {<<>>, <<[name |-> "RealTimeFunctionality", value |-> "true"]>>,
                 <<[name |-> "CustomScripts", value |-> "false"]>>,
                 <<[name |-> "RealTimeFunctionality", value |-> "true"],
                   [name |-> "CustomScripts", value |-> "absent"]>>}]

InitTwice ==
    /\ \/ script = "exportrp.py" /\ acc \in ListsOf(RpPolicies)
       \/ script = "exportusb.py" /\ acc \in ListsOf(FrameUsb)
    /\ host_counts = {}
    /\ result = <<>>
    /\ previous = NoRun
    /\ StoreIdle
    /\ AfterFetch

NextTwice ==
    \/ rp_transform
    \/ usb_transform
    \/ run_again

SpecTwice == InitTwice /\ [][NextTwice]_vars

\* C25: two runs of the same exporter against identical upstream responses
\* give identical data sheets: same sheets, same row order, same column
\* order, same cells; the response-policy export included.
C25_SameDataSameSheets ==
    (previous.ran /\ pc /= "transform") => result = previous.sheets

\* ------------------------------------- exportpp.fetch_policies, host counts
\* The hosts the prevention-members request returns: the first "limit" of
\* the tenant's members; each host is the id of its prevention policy, or
\* "none" when it has none.
members_page(members, lim) == SubSeq(members, 1, Min(lim, Len(members)))

\* "for policy in policies: if policy.get("id") == policy_id: ... break": the
\* name of the first policy of that id, "none" when there is none.
name_of(policies, policy_id) ==
    IF \E i \in DOMAIN policies : policies[i].id = policy_id
    THEN policies[CHOOSE i \in DOMAIN policies :
                      /\ policies[i].id = policy_id
                      /\ \A j \in 1..(i - 1) : policies[j].id /= policy_id].name
    ELSE "none"

RECURSIVE count_hosts(_, _, _)
\* host_counts after the first n passes of "for host in hosts".
count_hosts(policies, hosts, n) ==
    IF n = 0 THEN <<>>
    ELSE LET before == count_hosts(policies, hosts, n - 1)
             pol_name == name_of(policies, hosts[n])
         IN IF hosts[n] = "none" \/ pol_name = "none" THEN before
            ELSE dict_set(before, pol_name, dict_get(before, pol_name, 0) + 1)

RECURSIVE host_count_rows(_, _, _)
\* The "Host Count" rows of per_os after the first n passes of "for pol in
\* policies": "if pol_name in host_counts: per_os[so]["Host Count"][pol_name] = ...".
host_count_rows(policies, counts, n) ==
    IF n = 0 THEN <<>>
    ELSE LET before == host_count_rows(policies, counts, n - 1)
             pol == policies[n]
             rows == IF pol.name \in Range(dict_keys(counts))
                     THEN put(rows_of(before, pol.so), <<"Host Count">>, pol.name,
                              dict_get(counts, pol.name, 0))
                     ELSE rows_of(before, pol.so)
         IN IF SkippedPlatform(pol.so) THEN before ELSE set_rows(before, pol.so, rows)

\* fetch_policies, second request: a non-200 answer is only a warning.
count_fetch_members ==
    /\ script = "exportpp.py" /\ pc = "list"
    /\ \E ok \in BOOLEAN :
         host_counts' = IF ok
                        THEN count_hosts(acc, members_page(srv.members, limit),
                                         Len(members_page(srv.members, limit)))
                        ELSE <<>>
    /\ pc' = "transform"
    /\ UNCHANGED <<fn, limit, offset, acc, fstate, ids, idx, reqs, resps, printed, err, srv,
                   nreq, trace>>
    /\ UNCHANGED <<script, env, token, auth, kind, per_type, book, written, client_name, file>>
    /\ UNCHANGED batchVars
    /\ UNCHANGED ppVars
    /\ UNCHANGED storeVars

\* transform_policies, the "Host Count" rows only.
count_transform ==
    /\ script = "exportpp.py" /\ pc = "transform"
    /\ result' = host_count_rows(acc, host_counts, Len(acc))
    /\ pc' = IF acc = <<>> THEN "empty" ELSE "write"
    /\ UNCHANGED <<fn, limit, offset, acc, fstate, ids, idx, reqs, resps, printed, err, srv,
                   nreq, trace>>
    /\ UNCHANGED <<script, env, token, auth, kind, host_counts, per_type, book, written,
                   client_name, file>>
    /\ UNCHANGED batchVars
    /\ UNCHANGED previous
    /\ UNCHANGED storeVars

\* ---------------------------------------------------------------- SpecCount
\* The tenant has up to MaxHosts hosts and two prevention policies, which
\* may bear the same name; the request asks for "limit" members.
MaxHosts == 3

CountPolicies ==
    {<<[id |-> "p1", name |-> n1, so |-> s1]>> : n1 \in {"A", "B"}, s1 \in {"Windows", "Mac"}}
        \cup {<<[id |-> "p1", name |-> n1, so |-> s1], [id |-> "p2", name |-> n2, so |-> s2]>> :
                 n1 \in {"A", "B"}, n2 \in {"A", "B"},
                 s1 \in {"Windows", "Mac"}, s2 \in {"Windows", "Mac"}}

InitCount ==
    /\ script = "exportpp.py"
    /\ pc = "list"
    /\ acc \in CountPolicies
    /\ limit \in 1..MaxLimit
    /\ srv \in {[kind |-> "tenant", total |-> Len(m), disc |-> <<>>, members |-> m] :
                   m \in UNION {[1..n -> {"p1", "p2", "none"}] : n \in 0..MaxHosts}}
    /\ host_counts = <<>>
    /\ env = [client_id |-> TRUE, client_secret |-> TRUE, client_name |-> TRUE]
    /\ token = "tok"
    /\ auth = [status |-> 201, body |-> "token"]
    /\ kind = 0
    /\ per_type = <<>>
    /\ book = <<>>
    /\ written = 0
    /\ client_name = "env"
    /\ file = NoFile
    /\ fn = "none"
    /\ offset = 0
    /\ idx = 0
    /\ fstate = "idle"
    /\ ids = <<>>
    /\ reqs = <<>>
    /\ resps = <<>>
    /\ printed = 0
    /\ err = NoErr
    /\ nreq = NoReq
    /\ trace = FALSE
    /\ BatchIdle
    /\ result = <<>>
    /\ previous = NoRun
    /\ StoreIdle

NextCount ==
    \/ count_fetch_members
    \/ count_transform

SpecCount == InitCount /\ [][NextCount]_vars

\* The hosts of the tenant that policy i is assigned to.
HostsOf(i) == Cardinality({h \in DOMAIN srv.members : srv.members[h] = acc[i].id})

\* C30: for every prevention policy p, the "Host Count" row of p's platform
\* sheet shows, in p's column, the number of hosts of the whole members
\* collection whose prevention policy is p; also when two policies share a
\* name and when the collection is larger than the request's limit.
C30_HostCountIsExact ==
    pc \in {"empty", "write"} =>
        \A i \in DOMAIN acc :
            \E s \in DOMAIN result :
                /\ result[s].so = acc[i].so
                /\ \E j \in DOMAIN result[s].rows :
                      /\ result[s].rows[j].label = <<"Host Count">>
                      /\ acc[i].name \in DOMAIN result[s].rows[j].cells
                      /\ result[s].rows[j].cells[acc[i].name] = HostsOf(i)

\* ---------------------------------------------------------------- SpecSave
\* One call of save_to_excel on a bundle: the keys of a dict are distinct,
\* some are longer than a sheet name may be, and every table has rows.
MaxKeys == 2
MaxRows == 2

SaveKeys ==
    {"Windows", "Mac", "Sensor Anti-malware for End-User-A",
     "Sensor Anti-malware for End-User-B"}

Bundles ==
    {b \in UNION {[1..n -> [key : SaveKeys, rows : 1..MaxRows]] : n \in 1..MaxKeys} :
        \A i, j \in DOMAIN b : i /= j => b[i].key /= b[j].key}

\* The meta DataFrame of save_to_excel: the keys of the bundle and their number.
meta_frame(pt) == [names |-> [j \in DOMAIN pt |-> pt[j].key], total_abas |-> Len(pt)]

\* The number of rows a write put on its sheet: the table of a key, or the
\* one row of the meta DataFrame.
LayerRows(pt, l) ==
    IF \E j \in DOMAIN pt : pt[j].key = l
    THEN pt[CHOOSE j \in DOMAIN pt : pt[j].key = l].rows
    ELSE 1

\* The rows of a sheet after the writes in layers: each write puts its rows
\* over the rows already there, from the top, and clears nothing.
RECURSIVE Cells(_, _)
Cells(pt, layers) ==
    IF layers = <<>> THEN <<>>
    ELSE LET under == Cells(pt, SubSeq(layers, 1, Len(layers) - 1))
             top == layers[Len(layers)]
             n == LayerRows(pt, top)
         IN [i \in 1..Max(n, Len(under)) |-> IF i <= n THEN top ELSE under[i]]

InitSave ==
    /\ script = "exportiocs.py"
    /\ pc = "write"
    /\ per_type \in Bundles
    /\ file \in {NoFile, [state |-> "previous", sheets |-> <<>>]}
    /\ env = [client_id |-> TRUE, client_secret |-> TRUE, client_name |-> TRUE]
    /\ token = "tok"
    /\ auth = [status |-> 201, body |-> "token"]
    /\ kind = 0
    /\ host_counts = {}
    /\ book = <<>>
    /\ written = 0
    /\ client_name = "env"
    /\ fn = "none"
    /\ limit = 1
    /\ offset = 0
    /\ idx = 0
    /\ acc = <<>>
    /\ fstate = "idle"
    /\ ids = <<>>
    /\ reqs = <<>>
    /\ resps = <<>>
    /\ printed = 0
    /\ err = NoErr
    /\ nreq = NoReq
    /\ trace = FALSE
    /\ srv = [kind |-> "tenant", total |-> 0, disc |-> <<>>]
    /\ BatchIdle
    /\ result = <<>>
    /\ previous = NoRun
    /\ StoreIdle

NextSave ==
    \/ save_open
    \/ save_sheet
    \/ save_meta
    \/ save_close

SpecSave == InitSave /\ [][NextSave]_vars



\* ------------------------------------------------- claims on a run of main()
Terminal == {"done", "empty", "failed"}

DetailErrors == {"Falha ao buscar detalhes da regra", "Resposta da API invalida"}

\* The destination as it was before the run touched it.
Untouched == file.state \in {"absent", "previous"}

\* C4 (as stated in the specification): in the IOA rules export a failed
\* detail request does not abort hydration: once the loop over the listed
\* rule groups is left, a detail request has been issued for every listed id
\* and the run has not ended on the error of a detail request.
C4_DetailFailureDoesNotAbort ==
    (script = "exportioarules.py" /\ ids /= <<>> /\ pc /= "hydrate")
        => (nreq.detail = Len(ids) /\ err.msg \notin DetailErrors)

\* C7 (as stated in the specification): the write is all-or-nothing.  When
\* the run has ended in failure the destination is as it was before the run,
\* or it holds the complete bundle: every data sheet and the Meta sheet.
C7_WriteAllOrNothing ==
    pc = "failed"
        => \/ Untouched
           \/ /\ file.state = "workbook"
              /\ Len(file.sheets) = Len(per_type) + 1
              /\ file.sheets[Len(file.sheets)].name = "Meta"

\* C8 (as stated in the specification): every artifact holds exactly one
\* Meta sheet, the last one, carrying only the metadata, and before it one
\* data sheet per bundle key in key order, also when a discriminator value
\* is the string "Meta".
C8_MetaSheetLast ==
    pc = "done"
        => LET b == file.sheets IN
           /\ file.state = "workbook"
           /\ Len(b) = Len(per_type) + 1
           /\ b[Len(b)] = [name |-> "Meta", layers |-> <<"<meta>">>]
           /\ \A j \in 1..(Len(b) - 1) :
                 /\ b[j].name /= "Meta"
                 /\ j <= Len(per_type) => b[j].name = sheet_name(per_type[j].key)

\* No resource is left after fetch and hydration: no exclusion was hydrated,
\* no returned policy carries a setting, or the list is empty.
ZeroResources ==
    CASE script = "exportexclusions.py" -> \A j \in DOMAIN per_type : per_type[j].rows = 0
      [] script \in PolicyScripts \cup {"exportpp.py"} ->
            \A i \in DOMAIN acc : Attr(acc[i]).n = 0
      [] OTHER -> acc = <<>>

\* C9 (as stated in the specification): when no resource is left after
\* fetch and hydration, the run ends with "nothing to export": it never
\* starts to write an artifact and it does not end in error.
C9_ZeroResourcesNoArtifact ==
    (pc \in {"empty", "write", "sheets", "close", "done"} /\ ZeroResources)
        => (pc = "empty" /\ Untouched)

\* The token endpoint answered with status 201 and a body holding access_token.
GoodAuth == auth.status = 201 /\ auth.body = "token"

\* After a refused authentication the run has failed and has issued no list
\* or detail request and has not touched the destination.
NothingAfterAuth ==
    /\ pc = "failed" /\ token = "none"
    /\ nreq.list = 0 /\ nreq.detail = 0
    /\ written = 0 /\ book = <<>> /\ Untouched

\* C10 (as stated in the specification): authentication succeeds only on
\* status 201 with a parseable body; every other answer ends the run in
\* failure with an error carrying the response status and body, and no list,
\* detail or write step follows.
C10_AuthErrorCarriesStatusAndBody ==
    /\ token = "tok" => GoodAuth
    /\ (auth /= NoAuth /\ ~GoodAuth)
          => (NothingAfterAuth /\ err.fields = {"status", "body"})

\* C10 (amended): authentication succeeds exactly on status 201 with a body
\* holding access_token; every other answer ends the run in failure with no
\* list, detail or write step after it; the error carries the response
\* status and body when the status is not 201, and never the status when the
\* status is 201 and the body is unusable.
C10_AuthFailureStopsRun ==
    /\ token = "tok" => GoodAuth
    /\ (GoodAuth /\ pc /= "token") => (token = "tok" /\ nreq.token = 1)
    /\ (auth /= NoAuth /\ ~GoodAuth)
          => /\ NothingAfterAuth
             /\ auth.status /= 201 => err.fields = {"status", "body"}
             /\ auth.status = 201 => "status" \notin err.fields

C10_Witness ==
    /\ auth.status = 401 /\ pc = "failed"
    /\ err.fields = {"status", "body"} /\ nreq.token = 1 /\ nreq.list = 0

\* A required entry of the .env file is absent.
MissingCredential == ~(env.client_id /\ env.client_secret /\ env.client_name)

ConfigErrors ==
    {"credenciais nao encontradas no .env", "credenciais devem estar definidas no .env"}

\* C11 (as stated in the specification): when client_id, client_secret or
\* client_name is absent, the run ends with a configuration error before any
\* request is issued, and no value from elsewhere stands in for the absent
\* field.
C11_MissingCredentialFailsFast ==
    (script /= "none" /\ pc /= "token" /\ MissingCredential)
        => /\ pc = "failed"
           /\ err.msg \in ConfigErrors
           /\ nreq.token = 0 /\ nreq.list = 0 /\ nreq.detail = 0
           /\ client_name = "none"

\* C12 (as stated in the specification): once a request of a list fetch is
\* answered with a non-200 status or an unparseable body, the fetch raises
\* and hands nothing on: the run goes to failure without a transform or a
\* write, and no artifact is produced.
C12_ListFailureIsFatal ==
    (script /= "none" /\ nreq.listfail)
        => /\ pc \in {"list", "failed"}
           /\ pc = "list" => fstate = "raised"
           /\ book = <<>> /\ written = 0 /\ Untouched

\* The step of the run main() is in: Authenticating 1, Listing 2, Hydrating 3,
\* Transforming 4, Writing 5, and 6 for a run that is over without failure
\* (Done, or "nothing to export").
Step(p) ==
    CASE p = "token" -> 1
      [] p = "list" -> 2
      [] p = "hydrate" -> 3
      [] p = "transform" -> 4
      [] p \in {"write", "sheets", "close"} -> 5
      [] p \in {"done", "empty"} -> 6
      [] OTHER -> 0

\* The run is over, and no request is issued once the write has started.
EndsAndWritesLast ==
    /\ pc \in Terminal => pc' = pc
    /\ Step(pc) >= 5 => nreq' = nreq

C14_OneTokenReused ==
    script /= "none"
        => /\ nreq.token <= 1
           /\ (pc /= "token" /\ err.msg \notin ConfigErrors) => nreq.token = 1
           /\ (nreq.list + nreq.detail > 0)
                 => (nreq.token = 1 /\ token = "tok" /\ nreq.bearer = {token})

C14_Witness ==
    /\ script = "exportexclusions.py" /\ pc = "done"
    /\ nreq.denied /\ nreq.list >= 4 /\ nreq.detail >= 2
    /\ nreq.token = 1 /\ nreq.bearer = {"tok"}

\* C15 (as stated in the specification): once a list or detail request is
\* answered with 401 no further request is issued, the run goes to failure
\* without a transform, and no artifact is written.
C15_ExpiredTokenIsFatal ==
    [][/\ nreq.denied => nreq' = nreq
       /\ (script /= "none" /\ nreq'.denied)
             => /\ pc' \in {"list", "hydrate", "failed"}
                /\ book' = <<>> /\ file'.state \in {"absent", "previous"}]_vars

\* ------------------------------------------------ claims on save_to_excel
\* The keys of the bundle written to the sheet called name, in write order.
KeysOf(name) ==
    SelectSeq([j \in DOMAIN per_type |-> per_type[j].key], LAMBDA k : sheet_name(k) = name)

\* Two keys of the bundle share their sheet name.
Collision ==
    \E i, j \in DOMAIN per_type : i < j /\ sheet_name(per_type[i].key) = sheet_name(per_type[j].key)

\* The data sheets of the finished workbook: one per sheet name, none under a
\* key that is too long, and after them the Meta sheet, which counts every key.
OneSheetPerName ==
    LET b == file.sheets IN
    /\ file.state = "workbook"
    /\ \A s, t \in DOMAIN b : b[s].name = b[t].name => s = t
    /\ \A s \in DOMAIN b : b[s].name \notin DOMAIN LongKeys
    /\ {b[s].name : s \in DOMAIN b} = {sheet_name(per_type[j].key) : j \in DOMAIN per_type} \cup {"Meta"}
    /\ b[Len(b)].name = "Meta"
    /\ meta_frame(per_type).total_abas = Len(per_type)

\* C16 (as stated in the specification): sheet names are the keys cut to 31
\* characters; keys that share a sheet name end in one sheet whose content
\* is that of the key written last.
C16_LastWriteWins ==
    pc = "done"
        => /\ OneSheetPerName
           /\ \A s \in 1..(Len(file.sheets) - 1) :
                 LET ks == KeysOf(file.sheets[s].name)
                     last == ks[Len(ks)]
                 IN Cells(per_type, file.sheets[s].layers)
                        = [i \in 1..LayerRows(per_type, last) |-> last]

\* C16 (amended): sheet names are the keys cut to 31 characters; keys that
\* share a sheet name end in one sheet, written over in key order: each row
\* of the sheet is the row of the last key whose table reaches that row, so
\* rows of an earlier, longer table stay below the table written last.
C16_LaterTableOverlaysEarlier ==
    pc = "done"
        => /\ OneSheetPerName
           /\ \A s \in 1..(Len(file.sheets) - 1) :
                 LET ks == KeysOf(file.sheets[s].name)
                     reach(i) == {n \in DOMAIN ks : LayerRows(per_type, ks[n]) >= i}
                     cells == Cells(per_type, file.sheets[s].layers)
                 IN /\ Len(cells) = LayerRows(per_type,
                                      ks[CHOOSE n \in DOMAIN ks :
                                            \A m \in DOMAIN ks :
                                               LayerRows(per_type, ks[m])
                                                  <= LayerRows(per_type, ks[n])])
                    /\ \A i \in DOMAIN cells :
                          cells[i] = ks[CHOOSE n \in reach(i) : \A m \in reach(i) : m <= n]

C16_Witness ==
    /\ pc = "done" /\ Collision
    /\ Len(file.sheets) = 2
    /\ per_type[1].rows > per_type[2].rows
    /\ meta_frame(per_type).total_abas = 2

\* ------------------------------------------------------------- exporter.py
\* run_script: "if not os.path.isfile(script): ... return".
IsFile(s) == s \in present

\* The positions a child process can end in: those of main(), and a death
\* outside main()'s try block (a failing import at the top of the script).
ChildOutcomes == {"done", "empty", "failed", "crashed"}

\* run_script: subprocess.run(..., check=True) raises CalledProcessError on a
\* non-zero exit status; the handler prints the error line.
run_script_result(st) == IF st = 0 THEN "success" ELSE "error"

\* The scripts left for "for key, (d, s) in options.items()" once run_script
\* has returned: run_script lets no CalledProcessError out, the loop goes on.
NextQueueMut(q, st) == IF st = 0 THEN Tail(q) ELSE <<>>

NextQueue(q, st) == Tail(q)

\* run_script(s) for a script that is not in the current directory.
run_script_missing ==
    /\ bpc = "loop" /\ queue /= <<>> /\ ~IsFile(Head(queue))
    /\ report' = [script |-> Head(queue), result |-> "missing"]
    /\ queue' = Tail(queue)
    /\ UNCHANGED <<escolha, present, started, bpc>>
    /\ UNCHANGED <<fetchVars, runVars>>
    /\ UNCHANGED ppVars
    /\ UNCHANGED storeVars

\* run_script(s): subprocess.run starts the child and blocks.
run_script_start ==
    /\ bpc = "loop" /\ queue /= <<>> /\ IsFile(Head(queue))
    /\ started' = Append(started, Head(queue))
    /\ script' = Head(queue)
    /\ pc' = "token"
    /\ bpc' = "wait"
    /\ UNCHANGED <<escolha, queue, present, report>>
    /\ UNCHANGED fetchVars
    /\ UNCHANGED <<env, token, auth, kind, host_counts, per_type, book, written,
                   client_name, file>>
    /\ UNCHANGED ppVars
    /\ UNCHANGED storeVars

\* The child process: the run of the script from start to exit, SpecRun in
\* detail, kept here as the position it ends in.
child_main ==
    /\ bpc = "wait" /\ pc = "token"
    /\ pc' \in ChildOutcomes
    /\ UNCHANGED batchVars
    /\ UNCHANGED fetchVars
    /\ UNCHANGED <<script, env, token, auth, kind, host_counts, per_type, book, written,
                   client_name, file>>
    /\ UNCHANGED ppVars
    /\ UNCHANGED storeVars

\* run_script(s): subprocess.run returns or raises, the result line is printed.
run_script_end ==
    /\ bpc = "wait" /\ pc \in ChildOutcomes
    /\ report' = [script |-> script, result |-> run_script_result(ExitStatus(pc))]
    /\ queue' = NextQueue(queue, ExitStatus(pc))
    /\ bpc' = "loop"
    /\ UNCHANGED <<escolha, present, started>>
    /\ UNCHANGED <<fetchVars, runVars>>
    /\ UNCHANGED ppVars
    /\ UNCHANGED storeVars

\* submenu_exportar: the calls of run_script are over, the menu is shown again.
submenu_exportar_menu ==
    /\ bpc = "loop" /\ queue = <<>>
    /\ bpc' = "menu"
    /\ UNCHANGED <<escolha, queue, present, started, report>>
    /\ UNCHANGED <<fetchVars, runVars>>
    /\ UNCHANGED ppVars
    /\ UNCHANGED storeVars

\* ------------------------------------------- exporter.py, the client store
\* The .env file is its CLIENT_CONFIGS mapping (empty when the line or the
\* file is missing) and the KEY=value lines of its other keys.
ActiveKeys == {"FALCON_CLIENT_ID", "FALCON_CLIENT_SECRET", "FALCON_BASE_URL", "CLIENT_NAME"}

\* d[k] = v and del d[k] on a dict.
map_set(d, k, v) == [x \in DOMAIN d \cup {k} |-> IF x = k THEN v ELSE d[x]]

map_del(d, k) == [x \in DOMAIN d \ {k} |-> d[x]]

load_client_configs(f) == f.configs

\* The file is opened for writing and gets the one line CLIENT_CONFIGS=...
save_client_configs(client_configs) == [configs |-> client_configs, keys |-> EmptyMap]

\* A rewrite that keeps the credentials and the clients only.
update_env_for_clientMut(f, name, client_configs) ==
    IF name \notin DOMAIN client_configs THEN [ok |-> FALSE, file |-> f]
    ELSE [ok |-> TRUE,
          file |-> [configs |-> load_client_configs(f),
                    keys |-> [k \in ActiveKeys |->
                                 IF k = "CLIENT_NAME" THEN name
                                 ELSE client_configs[name][k]]]]

\* update_env_for_client: the result and the file afterwards.
update_env_for_client(f, name, client_configs) ==
    IF name \notin DOMAIN client_configs THEN [ok |-> FALSE, file |-> f]
    ELSE LET config == client_configs[name]
             current_content == f.keys
             kept == DOMAIN current_content \ ActiveKeys
         IN [ok |-> TRUE,
             file |-> [configs |-> load_client_configs(f),
                       keys |-> [k \in ActiveKeys \cup kept |->
                                    IF k = "CLIENT_NAME" THEN name
                                    ELSE IF k \in ActiveKeys THEN config[k]
                                    ELSE current_content[k]]]]

Names == {"acme", "beta"}

\* What the user can type as the credentials and the cloud of a client.
Typed ==
    {[FALCON_CLIENT_ID |-> "id-1", FALCON_CLIENT_SECRET |-> "secret-1",
      FALCON_BASE_URL |-> "https://api.crowdstrike.com"],
     [FALCON_CLIENT_ID |-> "id-2", FALCON_CLIENT_SECRET |-> "secret-2",
      FALCON_BASE_URL |-> "https://api.us-2.crowdstrike.com"]}

StoreFrame == UNCHANGED <<fetchVars, runVars, batchVars, ppVars>>

\* menu_principal: the loop loads the clients, then option 1 is chosen.
menu_exportar ==
    /\ mpc = "main"
    /\ menu_configs' = load_client_configs(envfile)
    /\ mpc' = "exportar"
    /\ lastop' = [op |-> "menu", name |-> "none", ok |-> TRUE]
    /\ UNCHANGED <<envfile, sub_configs, expected>>
    /\ StoreFrame

\* menu_principal: option 2; submenu_clientes loads the clients once.
menu_clientes ==
    /\ mpc = "main"
    /\ menu_configs' = load_client_configs(envfile)
    /\ sub_configs' = load_client_configs(envfile)
    /\ expected' = load_client_configs(envfile)
    /\ mpc' = "clientes"
    /\ lastop' = [op |-> "menu", name |-> "none", ok |-> TRUE]
    /\ UNCHANGED envfile
    /\ StoreFrame

\* Option 0 of a submenu.
menu_voltar ==
    /\ mpc \in {"exportar", "clientes"}
    /\ mpc' = "main"
    /\ lastop' = [op |-> "menu", name |-> "none", ok |-> TRUE]
    /\ UNCHANGED <<envfile, menu_configs, sub_configs, expected>>
    /\ StoreFrame

\* submenu_exportar: an export is chosen and a client name typed; the export
\* runs when update_env_for_client returns True.
selecionar_cliente ==
    /\ mpc = "exportar"
    /\ \E name \in Names :
         IF menu_configs = EmptyMap \/ name \notin DOMAIN menu_configs
         THEN /\ envfile' = envfile
              /\ lastop' = [op |-> "select", name |-> name, ok |-> FALSE]
         ELSE LET u == update_env_for_client(envfile, name, menu_configs) IN
              /\ envfile' = u.file
              /\ lastop' = [op |-> "select", name |-> name, ok |-> u.ok]
    /\ UNCHANGED <<menu_configs, sub_configs, mpc, expected>>
    /\ StoreFrame

\* cadastrar_cliente: it loads the clients from the file itself.
cadastrar_cliente ==
    /\ mpc = "clientes"
    /\ \E name \in Names, typed \in Typed :
         LET client_configs == load_client_configs(envfile) IN
         IF name \in DOMAIN client_configs
         THEN /\ envfile' = envfile
              /\ expected' = expected
              /\ lastop' = [op |-> "create", name |-> name, ok |-> FALSE]
         ELSE /\ envfile' = save_client_configs(map_set(client_configs, name, typed))
              /\ expected' = map_set(expected, name, typed)
              /\ lastop' = [op |-> "create", name |-> name, ok |-> TRUE]
    /\ UNCHANGED <<menu_configs, sub_configs, mpc>>
    /\ StoreFrame

\* editar_cliente(client_configs), called with submenu_clientes' dict.
editar_cliente ==
    /\ mpc = "clientes"
    /\ \E name \in Names, typed \in Typed :
         IF sub_configs = EmptyMap \/ name \notin DOMAIN sub_configs
         THEN /\ UNCHANGED <<envfile, sub_configs, expected>>
              /\ lastop' = [op |-> "edit", name |-> name, ok |-> FALSE]
         ELSE /\ sub_configs' = map_set(sub_configs, name, typed)
              /\ envfile' = save_client_configs(map_set(sub_configs, name, typed))
              /\ expected' = map_set(expected, name, typed)
              /\ lastop' = [op |-> "edit", name |-> name, ok |-> TRUE]
    /\ UNCHANGED <<menu_configs, mpc>>
    /\ StoreFrame

\* deletar_cliente(client_configs), called with submenu_clientes' dict.
deletar_cliente ==
    /\ mpc = "clientes"
    /\ \E name \in Names :
         IF sub_configs = EmptyMap \/ name \notin DOMAIN sub_configs
         THEN /\ UNCHANGED <<envfile, sub_configs, expected>>
              /\ lastop' = [op |-> "delete", name |-> name, ok |-> FALSE]
         ELSE /\ sub_configs' = map_del(sub_configs, name)
              /\ envfile' = save_client_configs(map_del(sub_configs, name))
              /\ expected' = map_del(expected, name)
              /\ lastop' = [op |-> "delete", name |-> name, ok |-> TRUE]
    /\ UNCHANGED <<menu_configs, mpc>>
    /\ StoreFrame

\* ---------------------------------------------------------------- SpecStore
\* The menus of exporter.py on a .env file that holds some clients and,
\* possibly, a key of its own.
StoredMaps == UNION {[S -> Typed] : S \in SUBSET Names}

InitStore ==
    /\ envfile \in [configs : StoredMaps,
                    keys : {EmptyMap, [k \in {"HTTPS_PROXY"} |-> "http://proxy:3128"]}]
    /\ menu_configs = EmptyMap
    /\ sub_configs = EmptyMap
    /\ expected = EmptyMap
    /\ mpc = "main"
    /\ lastop = NoOp
    /\ RunIdle
    /\ BatchIdle
    /\ fn = "none"
    /\ limit = 1
    /\ offset = 0
    /\ idx = 0
    /\ acc = <<>>
    /\ fstate = "idle"
    /\ ids = <<>>
    /\ reqs = <<>>
    /\ resps = <<>>
    /\ printed = 0
    /\ err = NoErr
    /\ nreq = NoReq
    /\ trace = FALSE
    /\ srv = [kind |-> "tenant", total |-> 0, disc |-> <<>>]
    /\ result = <<>>
    /\ previous = NoRun

NextStore ==
    \/ menu_exportar
    \/ menu_clientes
    \/ menu_voltar
    \/ selecionar_cliente
    \/ cadastrar_cliente
    \/ editar_cliente
    \/ deletar_cliente

SpecStore == InitStore /\ [][NextStore]_vars

\* --------------------------------------------- claims on the client store
\* C26: in a clients session the persisted CLIENT_CONFIGS holds exactly the
\* clients created and not deleted since, each with its latest values; a
\* client created earlier in the session survives a later edit or delete of
\* another client.
C26_NoLostUpdate ==
    mpc = "clientes" => load_client_configs(envfile) = expected

\* C27: update_env_for_client(name) for a stored client leaves the active
\* credential entries equal to that client's stored values, CLIENT_CONFIGS
\* unchanged and every other key with its value; for a name that is not
\* stored it returns False and leaves the file unchanged.
C27_SelectionWritesCredentialsOnly ==
    [][/\ lastop'.op = "select" =>
            LET name == lastop'.name IN
            IF name \in DOMAIN load_client_configs(envfile)
            THEN /\ lastop'.ok
                 /\ \A k \in ActiveKeys \ {"CLIENT_NAME"} :
                       /\ k \in DOMAIN envfile'.keys
                       /\ envfile'.keys[k] = envfile.configs[name][k]
                 /\ "CLIENT_NAME" \in DOMAIN envfile'.keys
                 /\ envfile'.keys["CLIENT_NAME"] = name
                 /\ envfile'.configs = envfile.configs
                 /\ \A k \in DOMAIN envfile.keys \ ActiveKeys :
                       k \in DOMAIN envfile'.keys /\ envfile'.keys[k] = envfile.keys[k]
                 /\ DOMAIN envfile'.keys \subseteq ActiveKeys \cup DOMAIN envfile.keys
            ELSE ~lastop'.ok /\ envfile' = envfile
       /\ \A n \in Names \ DOMAIN load_client_configs(envfile) :
             LET u == update_env_for_client(envfile, n, load_client_configs(envfile)) IN
             ~u.ok /\ u.file = envfile
      ]_vars

\* A stored client was selected in a file that holds a key of its own.
C27_Witness ==
    /\ lastop = [op |-> "select", name |-> "acme", ok |-> TRUE]
    /\ "HTTPS_PROXY" \in DOMAIN envfile.keys
    /\ "CLIENT_NAME" \in DOMAIN envfile.keys
    /\ envfile.keys["CLIENT_NAME"] = "acme"
    /\ "beta" \in DOMAIN envfile.configs

\* C28: creating, editing or deleting a client changes only the
\* CLIENT_CONFIGS entry: the active credential entries and any other keys
\* keep their values; creating a client whose name exists leaves the whole
\* file unchanged.
C28_ClientOpsKeepOtherKeys ==
    [][lastop'.op \in {"create", "edit", "delete"} =>
          /\ envfile'.keys = envfile.keys
          /\ (lastop'.op = "create" /\ lastop'.name \in DOMAIN load_client_configs(envfile))
                => envfile' = envfile
      ]_vars

\* --------------------------------------------------------------- SpecBatch
\* submenu_exportar after an option 1..9 was chosen for a registered client
\* and update_env_for_client has written the .env file.
InitBatch ==
    /\ escolha \in 1..9
    /\ queue = IF escolha = 9 THEN Scripts ELSE <<Scripts[escolha]>>
    /\ present \in SUBSET Range(Scripts)
    /\ started = <<>>
    /\ report = NoReport
    /\ bpc = "loop"
    /\ RunIdle
    /\ fn = "none"
    /\ limit = 1
    /\ offset = 0
    /\ idx = 0
    /\ acc = <<>>
    /\ fstate = "idle"
    /\ ids = <<>>
    /\ reqs = <<>>
    /\ resps = <<>>
    /\ printed = 0
    /\ err = NoErr
    /\ nreq = NoReq
    /\ trace = FALSE
    /\ srv = [kind |-> "tenant", total |-> 0, disc |-> <<>>]
    /\ result = <<>>
    /\ previous = NoRun
    /\ StoreIdle

NextBatch ==
    \/ run_script_missing
    \/ run_script_start
    \/ child_main
    \/ run_script_end
    \/ submenu_exportar_menu

SpecBatch == InitBatch /\ [][NextBatch]_vars

\* ------------------------------------------------------ claims on the menu
\* The scripts of the menu whose file is in the current directory.
Found == SelectSeq(Scripts, IsFile)

\* The scripts the loop has not passed yet.
Ahead == IF bpc = "wait" THEN Tail(queue) ELSE queue

\* C5 (as stated in the specification): in an "export all" run every one of
\* the eight scripts is started exactly once, in menu order: the scripts
\* started so far are the first scripts of the menu, and all eight have been
\* started when the menu is shown again.
C5_AllEightStarted ==
    escolha = 9
        => /\ started = SubSeq(Scripts, 1, Len(started))
           /\ bpc = "menu" => started = Scripts

\* C5 (amended): in an "export all" run every script of the menu whose file
\* is found is started exactly once, in menu order, whatever the earlier
\* children ended in; a child is started only when no other child is running.
C5_FoundScriptsStartedInOrder ==
    escolha = 9
        => /\ started \o SelectSeq(Ahead, IsFile) = Found
           /\ bpc = "menu" => started = Found
           /\ pc = "token" => (bpc = "wait" /\ script = started[Len(started)])

C5_Witness ==
    /\ escolha = 9 /\ bpc = "wait" /\ pc = "token"
    /\ Len(started) = 7 /\ script = Scripts[8]
    /\ report = [script |-> started[6], result |-> "error"]

\* C6 (as stated in the specification): a script whose run ended in failure
\* is reported by run_script as an error, never as finished successfully.
C6_FailedIsReportedAsError ==
    (bpc /= "wait" /\ report.script = script /\ pc = "failed")
        => report.result = "error"

====
